---- MODULE Spec2Model ----
(***************************************************************************)
(* Model of the sales analytics system (ashacherry/sales-analytics-system). *)
(*                                                                         *)
(* Text is a sequence of one-character strings, so that split, strip,      *)
(* replace, int() and float() are computed character by character.         *)
(* A float is a record: [k |-> "num", v |-> n] is the number n/1000 (the   *)
(* model carries three decimals), [k |-> "nan", v |-> 0] is NaN, and       *)
(* [k |-> "None", v |-> 0] is Python's None where a float is optional.     *)
(* A percentage is held in hundredths of a percent (two decimals).         *)
(***************************************************************************)
EXTENDS Integers, Sequences, FiniteSets, TLC

\* ------------------------------------------------------------------------
\* Bounds of the model
\* ------------------------------------------------------------------------
MaxLines == 3

MaxTxns == 3

MaxSales == 5

MaxFile == 3

\* ------------------------------------------------------------------------
\* Python text primitives
\* ------------------------------------------------------------------------
Digits == <<"0", "1", "2", "3", "4", "5", "6", "7", "8", "9">>

Upper == <<"A", "B", "C", "D", "E", "F", "G", "H", "I", "J", "K", "L", "M",
           "N", "O", "P", "Q", "R", "S", "T", "U", "V", "W", "X", "Y", "Z">>

Lower == <<"a", "b", "c", "d", "e", "f", "g", "h", "i", "j", "k", "l", "m",
           "n", "o", "p", "q", "r", "s", "t", "u", "v", "w", "x", "y", "z">>

Range(s) == {s[i] : i \in DOMAIN s}

IsDigit(c) == c \in Range(Digits)

DigitVal(c) == (CHOOSE i \in DOMAIN Digits : Digits[i] = c) - 1

IsSpace(c) == c = " "

\* str.lower() on one character
LowerChar(c) ==
    IF c \in Range(Upper)
    THEN Lower[CHOOSE i \in DOMAIN Upper : Upper[i] = c]
    ELSE c

\* str.lower()
lower(s) == [i \in DOMAIN s |-> LowerChar(s[i])]

\* code point of a character (ASCII)
Ord(c) ==
    IF c \in Range(Digits) THEN 48 + DigitVal(c)
    ELSE IF c \in Range(Upper) THEN 64 + (CHOOSE i \in DOMAIN Upper : Upper[i] = c)
    ELSE IF c \in Range(Lower) THEN 96 + (CHOOSE i \in DOMAIN Lower : Lower[i] = c)
    ELSE IF c = " " THEN 32
    ELSE IF c = "+" THEN 43
    ELSE IF c = "," THEN 44
    ELSE IF c = "-" THEN 45
    ELSE IF c = "." THEN 46
    ELSE IF c = "_" THEN 95
    ELSE 124

\* s < t for Python strings (lexicographic by code point)
RECURSIVE StrLess(_, _)
StrLess(s, t) ==
    IF t = <<>> THEN FALSE
    ELSE IF s = <<>> THEN TRUE
    ELSE IF s[1] # t[1] THEN Ord(s[1]) < Ord(t[1])
    ELSE StrLess(Tail(s), Tail(t))

RECURSIVE lstrip(_)
lstrip(s) ==
    IF s # <<>> /\ IsSpace(s[1]) THEN lstrip(Tail(s)) ELSE s

RECURSIVE rstrip(_)
rstrip(s) ==
    IF s # <<>> /\ IsSpace(s[Len(s)])
    THEN rstrip(SubSeq(s, 1, Len(s) - 1))
    ELSE s

\* str.strip()
strip(s) == rstrip(lstrip(s))

\* str.replace(old, new) for a one-character old; new is a text
RECURSIVE replace(_, _, _)
replace(s, old, new) ==
    IF s = <<>> THEN <<>>
    ELSE (IF s[1] = old THEN new ELSE <<s[1]>>) \o replace(Tail(s), old, new)

\* str.split(sep) for a one-character sep: cur is the field being read
RECURSIVE SplitFrom(_, _, _)
SplitFrom(s, sep, cur) ==
    IF s = <<>> THEN <<cur>>
    ELSE IF s[1] = sep THEN <<cur>> \o SplitFrom(Tail(s), sep, <<>>)
    ELSE SplitFrom(Tail(s), sep, Append(cur, s[1]))

split(s, sep) == SplitFrom(s, sep, <<>>)

\* sep.join(fields) for a one-character sep
RECURSIVE Join(_, _)
Join(fields, sep) ==
    IF Len(fields) = 0 THEN <<>>
    ELSE IF Len(fields) = 1 THEN fields[1]
    ELSE fields[1] \o <<sep>> \o Join(Tail(fields), sep)

\* str.startswith(prefix) for a one-character prefix
startswith(s, c) == s # <<>> /\ s[1] = c

\* value of a run of decimal digits
RECURSIVE DigitsValue(_)
DigitsValue(ds) ==
    IF ds = <<>> THEN 0
    ELSE 10 * DigitsValue(SubSeq(ds, 1, Len(ds) - 1)) + DigitVal(ds[Len(ds)])

AllDigits(ds) == \A i \in DOMAIN ds : IsDigit(ds[i])

HasSign(s) == s # <<>> /\ s[1] \in {"+", "-"}

Unsigned(s) == IF HasSign(s) THEN Tail(s) ELSE s

Signed(s, n) == IF HasSign(s) /\ s[1] = "-" THEN 0 - n ELSE n

\* int(text): ok = FALSE is ValueError
int(text) ==
    LET s == strip(text)
        body == Unsigned(s)
    IN IF body # <<>> /\ AllDigits(body)
       THEN [ok |-> TRUE, v |-> Signed(s, DigitsValue(body))]
       ELSE [ok |-> FALSE, v |-> 0]

NaN == [k |-> "nan", v |-> 0]

None == [k |-> "None", v |-> 0]

Num(n) == [k |-> "num", v |-> n]

\* the fraction digits of a decimal literal, in thousandths
FracValue(ds) ==
    LET padded == SubSeq(ds \o <<"0", "0", "0">>, 1, 3)
    IN DigitsValue(padded)

\* float(text): ok = FALSE is ValueError; "nan" parses to NaN
float(text) ==
    LET s == strip(text)
        body == Unsigned(s)
        parts == split(body, ".")
    IN IF lower(body) = <<"n", "a", "n">>
       THEN [ok |-> TRUE, f |-> NaN]
       ELSE IF Len(parts) = 1 /\ body # <<>> /\ AllDigits(body)
       THEN [ok |-> TRUE, f |-> Num(Signed(s, 1000 * DigitsValue(body)))]
       ELSE IF /\ Len(parts) = 2
               /\ AllDigits(parts[1]) /\ AllDigits(parts[2])
               /\ parts[1] \o parts[2] # <<>>
       THEN [ok |-> TRUE,
             f |-> Num(Signed(s, 1000 * DigitsValue(parts[1])
                                   + FracValue(parts[2])))]
       ELSE [ok |-> FALSE, f |-> NaN]

\* float comparisons: every comparison with NaN is false
FLe(a, b) == a.k = "num" /\ b.k = "num" /\ a.v <= b.v

FLt(a, b) == a.k = "num" /\ b.k = "num" /\ a.v < b.v

FGe(a, b) == FLe(b, a)

FGt(a, b) == FLt(b, a)

\* None where a text is optional
NoneText == <<"None">>

\* truth value of an optional text: None and "" are false
Truthy(text) == text # NoneText /\ text # <<>>

\* int * float
FMul(q, p) == IF p.k = "num" THEN Num(q * p.v) ELSE NaN

\* float + float
FAdd(a, b) == IF a.k = "num" /\ b.k = "num" THEN Num(a.v + b.v) ELSE NaN

\* ------------------------------------------------------------------------
\* Program state
\* ------------------------------------------------------------------------
VARIABLES
    pc,                    \* the step the program is at
    raw_lines,             \* parse_transactions: argument
    parsed_transactions,   \* parse_transactions: returned list
    discarded_count,       \* parse_transactions: returned count
    discarded_records,     \* parse_transactions: returned raw lines
    total_records,         \* parse_transactions: lines seen (printed)
    transactions,          \* argument of validate_and_filter / an aggregator
    region,                \* validate_and_filter: argument
    min_amount,            \* validate_and_filter: argument
    max_amount,            \* validate_and_filter: argument
    filtered_transactions, \* validate_and_filter: returned list
    invalid_count,         \* validate_and_filter: returned count
    summary,               \* validate_and_filter: returned summary
    printed,               \* lines written to standard output by the call
    region_stats,          \* region_wise_sales: returned mapping, in order
    file,                  \* data/sales_data.txt: whether it exists, its lines
    discarded_read,        \* main: count returned by read_sales_data
    total_revenue,         \* main: result of calculate_total_revenue
    top_products,          \* main: result of top_selling_products
    peak_day,              \* main: result of find_peak_sales_day
    output_file,           \* output/output.txt: what has been written to it
    top_n,                 \* top_selling_products: argument n
    threshold,             \* low_performing_products: argument
    low_products,          \* low_performing_products: returned list
    customer_stats,        \* customer_analysis: returned mapping, in order
    daily_stats,           \* daily_sales_trend: returned mapping, in order
    product_mapping,       \* enrich_sales_data: argument
    enriched_transactions, \* enrich_sales_data: returned list
    reenriched_transactions, \* enrich_sales_data: result on its own output
    api_products,          \* main: list returned by fetch_all_products
    enriched_file,         \* data/enriched_sales_data.txt: its lines
    report_file,           \* output/sales_report.txt: what was written
    stdout,                \* sys.stdout: the stream print writes to
    calls,                 \* number of calls made so far
    raised                 \* whether the call ended by an exception

parseVars == <<raw_lines, parsed_transactions, discarded_count,
               discarded_records, total_records>>

validateVars == <<transactions, region, min_amount, max_amount,
                  filtered_transactions, invalid_count, summary, printed>>

pipelineVars == <<reenriched_transactions, api_products, enriched_file,
                  report_file, stdout, calls>>

analysisVars == <<top_n, threshold, low_products, customer_stats, daily_stats,
                  product_mapping, enriched_transactions, pipelineVars>>

mainVars == <<file, discarded_read, total_revenue, top_products, peak_day,
              output_file, analysisVars>>

vars == <<pc, parseVars, validateVars, region_stats, mainVars, raised>>

\* no data file
NoFile == [exists |-> FALSE, lines |-> <<>>]

\* the summary before validate_and_filter has built one
NoSummary == [total_input |-> 0, invalid |-> 0, filtered_by_region |-> 0,
              filtered_by_amount |-> 0, final_count |-> 0]

\* ------------------------------------------------------------------------
\* utils/file_handler.py: parse_transactions
\* ------------------------------------------------------------------------
\* body of the try block for one stripped line of 8 parts:
\* ok = FALSE is an exception raised inside the block
ParseFields(parts) ==
    LET transaction_id == strip(parts[1])
        date == strip(parts[2])
        product_id == strip(parts[3])
        product_name == strip(replace(parts[4], ",", <<" ">>))
        quantity == int(strip(replace(parts[5], ",", <<>>)))
        unit_price == float(strip(replace(parts[6], ",", <<>>)))
        customer_id == strip(parts[7])
        region_ == strip(parts[8])
        txn == [TransactionID |-> transaction_id,
                Date |-> date,
                ProductID |-> product_id,
                ProductName |-> product_name,
                Quantity |-> quantity.v,
                UnitPrice |-> unit_price.f,
                CustomerID |-> customer_id,
                Region |-> region_]
    IN IF ~quantity.ok \/ ~unit_price.ok
       THEN [ok |-> FALSE, txn |-> txn]
       ELSE IF ~startswith(transaction_id, "T")
       THEN [ok |-> FALSE, txn |-> txn]
       ELSE IF customer_id = <<>> \/ region_ = <<>>
       THEN [ok |-> FALSE, txn |-> txn]
       ELSE IF quantity.v <= 0
       THEN [ok |-> FALSE, txn |-> txn]
       ELSE IF FLe(unit_price.f, Num(0))
       THEN [ok |-> FALSE, txn |-> txn]
       ELSE [ok |-> TRUE, txn |-> txn]

\* ParseLine with the field-count branch of the older parser, which skips
\* the line without counting it
ParseLine_Uncounted(acc, raw) ==
    LET line == strip(raw)
        parts == split(line, "|")
    IN IF line = <<>> THEN acc
       ELSE IF Len(parts) # 8
       THEN [acc EXCEPT !.total_records = @ + 1]
       ELSE IF ParseFields(parts).ok
       THEN [acc EXCEPT !.total_records = @ + 1,
                        !.parsed_transactions =
                            Append(@, ParseFields(parts).txn)]
       ELSE [acc EXCEPT !.total_records = @ + 1,
                        !.discarded_count = @ + 1,
                        !.discarded_records = Append(@, line)]

\* ParseLine keeping the cleaned fields of a rejected line, not its text
ParseLine_Reconstructed(acc, raw) ==
    LET line == strip(raw)
        parts == split(line, "|")
    IN IF line = <<>> THEN acc
       ELSE IF Len(parts) # 8
       THEN [acc EXCEPT !.total_records = @ + 1,
                        !.discarded_count = @ + 1,
                        !.discarded_records = Append(@, line)]
       ELSE IF ParseFields(parts).ok
       THEN [acc EXCEPT !.total_records = @ + 1,
                        !.parsed_transactions =
                            Append(@, ParseFields(parts).txn)]
       ELSE [acc EXCEPT !.total_records = @ + 1,
                        !.discarded_count = @ + 1,
                        !.discarded_records =
                            Append(@, Join([i \in DOMAIN parts |->
                                               strip(parts[i])], "|"))]

\* one iteration of the loop over raw_lines
ParseLine(acc, raw) ==
    LET line == strip(raw)
        parts == split(line, "|")
    IN IF line = <<>> THEN acc
       ELSE IF Len(parts) # 8
       THEN [acc EXCEPT !.total_records = @ + 1,
                        !.discarded_count = @ + 1,
                        !.discarded_records = Append(@, line)]
       ELSE IF ParseFields(parts).ok
       THEN [acc EXCEPT !.total_records = @ + 1,
                        !.parsed_transactions =
                            Append(@, ParseFields(parts).txn)]
       ELSE [acc EXCEPT !.total_records = @ + 1,
                        !.discarded_count = @ + 1,
                        !.discarded_records = Append(@, line)]

RECURSIVE ParseLoop(_, _)
ParseLoop(acc, lines) ==
    IF lines = <<>> THEN acc
    ELSE ParseLoop(ParseLine(acc, lines[1]), Tail(lines))

parse_transactions(lines) ==
    ParseLoop([parsed_transactions |-> <<>>,
               discarded_records |-> <<>>,
               discarded_count |-> 0,
               total_records |-> 0], lines)

\* ------------------------------------------------------------------------
\* Inputs of parse_transactions: lines as read_sales_data returns them
\* (stripped and non-blank), built from fields joined by "|"
\* ------------------------------------------------------------------------
TidFields == {<<"T", "1">>, <<"X", "1">>, <<"T", "2", " ">>}

DateField == <<"0", "5">>

PidFields == {<<"P", "1">>, <<"Q", "1">>}

NameFields == {<<"A", ",", "B">>, <<" ", "A">>}

QtyFields == {<<"1">>, <<"0">>, <<"x">>, <<"1", ",", "0">>, <<" ", "2", " ">>,
              <<"-", "1">>}

PriceFields == {<<"5">>, <<"0">>, <<"n", "a", "n">>, <<"x">>,
                <<"1", ",", "5">>, <<"0", ".", "5">>, <<"-", "1">>}

CustFields == {<<"C", "1">>, <<>>, <<" ">>}

RegionFields == {<<"N">>, <<" ", "n">>, <<>>}

\* every line of 8 fields over the field choices above
FullLines ==
    {Join(<<t, DateField, p, n, q, u, c, r>>, "|") :
        t \in TidFields, p \in PidFields, n \in NameFields, q \in QtyFields,
        u \in PriceFields, c \in CustFields, r \in RegionFields}

GoodLine == Join(<<<<"T", "1">>, DateField, <<"P", "1">>, <<"A", ",", "B">>,
                   <<"1", ",", "0">>, <<"1", ",", "5">>, <<"C", "1">>,
                   <<"N">>>>, "|")

OtherGoodLine == Join(<<<<"T", "2">>, DateField, <<"Q", "1">>, <<"A">>,
                        <<"2">>, <<"0", ".", "5">>, <<"C", "2">>,
                        <<"S">>>>, "|")

SevenFields == Join(<<<<"T", "1">>, DateField, <<"P", "1">>, <<"A">>,
                      <<"1">>, <<"5">>, <<"C", "1">>>>, "|")

NineFields == GoodLine \o <<"|", "z">>

ZeroQuantity == Join(<<<<"T", "1">>, DateField, <<"P", "1">>, <<"A">>,
                       <<"0">>, <<"5">>, <<"C", "1">>, <<"N">>>>, "|")

BadPrice == Join(<<<<"T", "1">>, DateField, <<"P", "1">>, <<"A">>,
                   <<"1">>, <<"x">>, <<"C", "1">>, <<"N">>>>, "|")

NanPrice == Join(<<<<"T", "1">>, DateField, <<"P", "1">>, <<"A">>,
                   <<"1">>, <<"n", "a", "n">>, <<"C", "1">>, <<"N">>>>, "|")

\* the lines lists of several lines are made of
CoreLines == {GoodLine, OtherGoodLine, SevenFields, NineFields, ZeroQuantity,
              BadPrice, NanPrice}

RECURSIVE ListsUpTo(_, _)
ListsUpTo(S, n) ==
    IF n = 0 THEN {<<>>}
    ELSE LET shorter == ListsUpTo(S, n - 1)
         IN shorter \cup {Append(l, x) : l \in shorter, x \in S}

RawInputs == {<<l>> : l \in FullLines} \cup ListsUpTo(CoreLines, MaxLines)

\* ------------------------------------------------------------------------
\* Specification of the parser: one call of parse_transactions
\* ------------------------------------------------------------------------
ParseIdle ==
    /\ raw_lines = <<>>
    /\ parsed_transactions = <<>>
    /\ discarded_count = 0
    /\ discarded_records = <<>>
    /\ total_records = 0

ValidateIdle ==
    /\ transactions = <<>>
    /\ region = NoneText
    /\ min_amount = None
    /\ max_amount = None
    /\ filtered_transactions = <<>>
    /\ invalid_count = 0
    /\ summary = NoSummary
    /\ printed = <<>>

\* nothing fetched, saved or reported; print writes to the console
PipelineIdle ==
    /\ reenriched_transactions = <<>>
    /\ api_products = <<>>
    /\ enriched_file = <<>>
    /\ report_file = <<>>
    /\ stdout = "console"
    /\ calls = 0

\* the arguments at their defaults and no result yet
AnalysisIdle ==
    /\ top_n = 5
    /\ threshold = 10
    /\ low_products = <<>>
    /\ customer_stats = <<>>
    /\ daily_stats = <<>>
    /\ product_mapping = <<>>
    /\ enriched_transactions = <<>>
    /\ PipelineIdle

MainIdle ==
    /\ file = NoFile
    /\ discarded_read = 0
    /\ total_revenue = Num(0)
    /\ top_products = <<>>
    /\ peak_day = <<>>
    /\ output_file = <<>>
    /\ AnalysisIdle

InitParse ==
    /\ pc = "parse"
    /\ ValidateIdle
    /\ MainIdle
    /\ region_stats = <<>>
    /\ raw_lines \in RawInputs
    /\ parsed_transactions = <<>>
    /\ discarded_count = 0
    /\ discarded_records = <<>>
    /\ total_records = 0
    /\ raised = FALSE

CallParse ==
    /\ pc = "parse"
    /\ LET r == parse_transactions(raw_lines)
       IN /\ parsed_transactions' = r.parsed_transactions
          /\ discarded_count' = r.discarded_count
          /\ discarded_records' = r.discarded_records
          /\ total_records' = r.total_records
    /\ pc' = "parsed"
    /\ UNCHANGED <<raw_lines, raised, validateVars, region_stats, mainVars>>

NextParse == CallParse

SpecParse == InitParse /\ [][NextParse]_vars

\* ------------------------------------------------------------------------
\* Properties of parse_transactions
\* ------------------------------------------------------------------------
\* the fields of a line and the two numeric fields as the parser reads them
FieldsOf(line) == split(line, "|")

QuantityOf(line) == int(replace(FieldsOf(line)[5], ",", <<>>))

UnitPriceOf(line) == float(replace(FieldsOf(line)[6], ",", <<>>))

\* C2: for every list of non-blank raw lines, the number of parsed
\* transactions plus the discarded count equals the number of lines seen.
C2_ParsedPlusDiscarded ==
    pc = "parsed" =>
        /\ Len(parsed_transactions) + discarded_count = total_records
        /\ total_records = Len(raw_lines)

C2_Witness ==
    /\ pc = "parsed"
    /\ Len(parsed_transactions) >= 1
    /\ discarded_count >= 1
    /\ Len(raw_lines) >= 2

\* the acceptance condition as the specification states it
SpecAccepts(line) ==
    /\ Len(FieldsOf(line)) = 8
    /\ QuantityOf(line).ok /\ QuantityOf(line).v > 0
    /\ UnitPriceOf(line).ok /\ FGt(UnitPriceOf(line).f, Num(0))
    /\ startswith(strip(FieldsOf(line)[1]), "T")
    /\ strip(FieldsOf(line)[7]) # <<>>
    /\ strip(FieldsOf(line)[8]) # <<>>

\* the transaction the specification says an accepted line yields
SpecTransaction(line) ==
    [TransactionID |-> strip(FieldsOf(line)[1]),
     Date |-> strip(FieldsOf(line)[2]),
     ProductID |-> strip(FieldsOf(line)[3]),
     ProductName |-> strip(replace(FieldsOf(line)[4], ",", <<" ">>)),
     Quantity |-> QuantityOf(line).v,
     UnitPrice |-> UnitPriceOf(line).f,
     CustomerID |-> strip(FieldsOf(line)[7]),
     Region |-> strip(FieldsOf(line)[8])]

RECURSIVE SpecParsed(_)
SpecParsed(lines) ==
    IF lines = <<>> THEN <<>>
    ELSE (IF SpecAccepts(lines[1]) THEN <<SpecTransaction(lines[1])>>
          ELSE <<>>) \o SpecParsed(Tail(lines))

\* C3: a line is accepted exactly when it has 8 fields, quantity parses as
\* an integer > 0, unit price parses as a number > 0, the transaction id
\* starts with T and customer id and region are non-empty; the emitted
\* transaction holds the trimmed fields and the parsed numbers.
C3_AcceptsExactly ==
    pc = "parsed" => parsed_transactions = SpecParsed(raw_lines)

\* the causes of rejection the parser names: field count, a numeric field
\* that does not parse, and the four format rules
RejectCause(line) ==
    \/ Len(FieldsOf(line)) # 8
    \/ ~QuantityOf(line).ok
    \/ ~UnitPriceOf(line).ok
    \/ ~startswith(strip(FieldsOf(line)[1]), "T")
    \/ strip(FieldsOf(line)[7]) = <<>>
    \/ strip(FieldsOf(line)[8]) = <<>>
    \/ QuantityOf(line).v <= 0
    \/ FLe(UnitPriceOf(line).f, Num(0))

\* C4: a line with a wrong field count, an unparseable quantity or unit
\* price, or a format-rule violation is discarded without an exception,
\* counted once, and its raw text is appended verbatim: the discard list is
\* the rejected lines in input order and its length is the discarded count.
C4_DiscardsVerbatim ==
    pc = "parsed" =>
        /\ raised = FALSE
        /\ discarded_records = SelectSeq(raw_lines, RejectCause)
        /\ discarded_count = Len(discarded_records)

C4_Witness ==
    /\ pc = "parsed"
    /\ raw_lines = <<SevenFields, GoodLine, ZeroQuantity>>
    /\ discarded_records = <<SevenFields, ZeroQuantity>>

\* ------------------------------------------------------------------------
\* utils/file_handler.py: validate_and_filter
\* ------------------------------------------------------------------------
\* int * float converts the int to a float first, and an int beyond the
\* float range raises OverflowError. Python's range ends near 1.8e308; the
\* model's numbers are scaled down, and a quantity above FloatLimit stands
\* for an int that does not convert.
FloatLimit == 1000

\* some record of the list makes Quantity * UnitPrice raise OverflowError
OverflowIn(txns) ==
    \E i \in DOMAIN txns :
        /\ {"Quantity", "UnitPrice"} \subseteq DOMAIN txns[i]
        /\ txns[i].Quantity > FloatLimit

\* t["Quantity"] * t["UnitPrice"]
Amount(t) == FMul(t.Quantity, t.UnitPrice)

\* whether every txn[key] of a try block finds its key: a missing key is
\* KeyError, which the aggregation loops catch by skipping the record
HasKeys(txn, keys) == keys \subseteq DOMAIN txn

\* the validation loop skipping a record with a bad ProductID without
\* counting it
ValidateTxn_Uncounted(acc, txn) ==
    IF txn.Quantity <= 0
    THEN [acc EXCEPT !.invalid_count = @ + 1]
    ELSE IF FLe(txn.UnitPrice, Num(0))
    THEN [acc EXCEPT !.invalid_count = @ + 1]
    ELSE IF ~startswith(txn.TransactionID, "T")
    THEN [acc EXCEPT !.invalid_count = @ + 1]
    ELSE IF ~startswith(txn.ProductID, "P")
    THEN acc
    ELSE IF ~startswith(txn.CustomerID, "C")
    THEN [acc EXCEPT !.invalid_count = @ + 1]
    ELSE [acc EXCEPT !.valid_transactions = Append(@, txn)]

\* one iteration of the validation loop
ValidateTxn(acc, txn) ==
    IF txn.Quantity <= 0
    THEN [acc EXCEPT !.invalid_count = @ + 1]
    ELSE IF FLe(txn.UnitPrice, Num(0))
    THEN [acc EXCEPT !.invalid_count = @ + 1]
    ELSE IF ~startswith(txn.TransactionID, "T")
    THEN [acc EXCEPT !.invalid_count = @ + 1]
    ELSE IF ~startswith(txn.ProductID, "P")
    THEN [acc EXCEPT !.invalid_count = @ + 1]
    ELSE IF ~startswith(txn.CustomerID, "C")
    THEN [acc EXCEPT !.invalid_count = @ + 1]
    ELSE [acc EXCEPT !.valid_transactions = Append(@, txn)]

RECURSIVE ValidateLoop(_, _)
ValidateLoop(acc, txns) ==
    IF txns = <<>> THEN acc
    ELSE ValidateLoop(ValidateTxn(acc, txns[1]), Tail(txns))

\* sorted() of a set of texts
RECURSIVE SortedTexts(_)
SortedTexts(S) ==
    IF S = {} THEN <<>>
    ELSE LET least == CHOOSE x \in S : \A y \in S \ {x} : StrLess(x, y)
         IN <<least>> \o SortedTexts(S \ {least})

\* min() of a non-empty list of floats
RECURSIVE MinFrom(_, _)
MinFrom(cur, rest) ==
    IF rest = <<>> THEN cur
    ELSE MinFrom(IF FLt(rest[1], cur) THEN rest[1] ELSE cur, Tail(rest))

\* max() of a non-empty list of floats
RECURSIVE MaxFrom(_, _)
MaxFrom(cur, rest) ==
    IF rest = <<>> THEN cur
    ELSE MaxFrom(IF FGt(rest[1], cur) THEN rest[1] ELSE cur, Tail(rest))

\* the display step of the older validate_and_filter: min() and max() of
\* the amounts without a test for the empty list, which raises ValueError
Display_Unguarded(valid) ==
    LET regions == SortedTexts({valid[i].Region : i \in DOMAIN valid})
        amounts == [i \in DOMAIN valid |-> Amount(valid[i])]
    IN IF OverflowIn(valid)
       THEN [raised |-> TRUE, printed |-> <<<<"Regions", regions>>>>]
       ELSE IF amounts # <<>>
       THEN [raised |-> FALSE,
             printed |-> <<<<"Regions", regions>>,
                           <<"Amount Range", MinFrom(amounts[1], Tail(amounts)),
                             MaxFrom(amounts[1], Tail(amounts))>>>>]
       ELSE [raised |-> TRUE, printed |-> <<<<"Regions", regions>>>>]

\* the display step: regions, and the amount range when there are amounts;
\* raised = TRUE is the OverflowError of an amount, which nothing catches
Display(valid) ==
    LET regions == SortedTexts({valid[i].Region : i \in DOMAIN valid})
        amounts == [i \in DOMAIN valid |-> Amount(valid[i])]
    IN IF OverflowIn(valid)
       THEN [raised |-> TRUE, printed |-> <<<<"Regions", regions>>>>]
       ELSE IF amounts # <<>>
       THEN [raised |-> FALSE,
             printed |-> <<<<"Regions", regions>>,
                           <<"Amount Range", MinFrom(amounts[1], Tail(amounts)),
                             MaxFrom(amounts[1], Tail(amounts))>>>>]
       ELSE [raised |-> FALSE, printed |-> <<<<"Regions", regions>>>>]

\* the region filter with the comparison of the older variant (exact case)
RegionMatches_CaseSensitive(t, reg) == t.Region = reg

\* the test of the region filter
RegionMatches(t, reg) == lower(t.Region) = lower(reg)

\* the amount filter with exclusive bounds
AmountWithin_Exclusive(t, lo, hi) ==
    /\ lo = None \/ FGt(Amount(t), lo)
    /\ hi = None \/ FLt(Amount(t), hi)

\* the test of the amount filter
AmountWithin(t, lo, hi) ==
    /\ lo = None \/ FGe(Amount(t), lo)
    /\ hi = None \/ FLe(Amount(t), hi)

validate_and_filter(txns, reg, lo, hi) ==
    LET total_input == Len(txns)
        validated == ValidateLoop([invalid_count |-> 0,
                                   valid_transactions |-> <<>>], txns)
        valid_transactions == validated.valid_transactions
        display == Display(valid_transactions)
        KeepRegion(t) == RegionMatches(t, reg)
        by_region == IF Truthy(reg)
                     THEN SelectSeq(valid_transactions, KeepRegion)
                     ELSE valid_transactions
        filtered_by_region == Len(valid_transactions) - Len(by_region)
        KeepAmount(t) == AmountWithin(t, lo, hi)
        by_amount == IF lo # None \/ hi # None
                     THEN SelectSeq(by_region, KeepAmount)
                     ELSE by_region
        filtered_by_amount == Len(by_region) - Len(by_amount)
    IN IF display.raised
       THEN [raised |-> TRUE,
             filtered_transactions |-> <<>>,
             invalid_count |-> 0,
             summary |-> NoSummary,
             printed |-> display.printed]
       ELSE [raised |-> FALSE,
             filtered_transactions |-> by_amount,
             invalid_count |-> validated.invalid_count,
             summary |-> [total_input |-> total_input,
                          invalid |-> validated.invalid_count,
                          filtered_by_region |-> filtered_by_region,
                          filtered_by_amount |-> filtered_by_amount,
                          final_count |-> Len(by_amount)],
             printed |-> display.printed
                 \o (IF Truthy(reg)
                     THEN <<<<"After region filter", Len(by_region)>>>>
                     ELSE <<>>)
                 \o (IF lo # None \/ hi # None
                     THEN <<<<"After amount filter", Len(by_amount)>>>>
                     ELSE <<>>)]

\* ------------------------------------------------------------------------
\* Inputs of validate_and_filter
\* ------------------------------------------------------------------------
Txn(tid, date, pid, name, qty, price, cid, reg) ==
    [TransactionID |-> tid, Date |-> date, ProductID |-> pid,
     ProductName |-> name, Quantity |-> qty, UnitPrice |-> price,
     CustomerID |-> cid, Region |-> reg]

North == <<"N", "o", "r", "t", "h">>

north == <<"n", "o", "r", "t", "h">>

NORTH == <<"N", "O", "R", "T", "H">>

South == <<"S", "o", "u", "t", "h">>

East == <<"E", "a", "s", "t">>

\* amount 2.0 in North
TxnNorth == Txn(<<"T", "1">>, <<"0", "1">>, <<"P", "1">>, <<"A">>,
                1, Num(2000), <<"C", "1">>, North)

\* amount 3.0 in north
TxnLower == Txn(<<"T", "2">>, <<"0", "1">>, <<"P", "2">>, <<"B">>,
                2, Num(1500), <<"C", "2">>, north)

\* amount 4.0 in South
TxnSouth == Txn(<<"T", "3">>, <<"0", "2">>, <<"P", "1">>, <<"A">>,
                1, Num(4000), <<"C", "1">>, South)

\* a unit price of NaN, as the parser emits for the text "nan"
TxnNaN == [TxnNorth EXCEPT !.UnitPrice = NaN]

TxnZeroQty == [TxnNorth EXCEPT !.Quantity = 0]

TxnZeroPrice == [TxnNorth EXCEPT !.UnitPrice = Num(0)]

TxnBadTid == [TxnNorth EXCEPT !.TransactionID = <<"X", "1">>]

TxnBadPid == [TxnLower EXCEPT !.ProductID = <<"Q", "1">>]

TxnBadCid == [TxnSouth EXCEPT !.CustomerID = <<"D", "1">>]

TxnAllBad == Txn(<<"X", "9">>, <<"0", "1">>, <<"Q", "9">>, <<"A">>,
                 0, Num(0), <<"D", "9">>, North)

TxnPool == {TxnNorth, TxnLower, TxnSouth, TxnNaN, TxnZeroQty, TxnZeroPrice,
            TxnBadTid, TxnBadPid, TxnBadCid, TxnAllBad}

RegionChoices == {NoneText, <<>>, NORTH, East}

MinChoices == {None, Num(3000)}

MaxChoices == {None, Num(3000)}

\* ------------------------------------------------------------------------
\* Specification of the validator: one call of validate_and_filter, without
\* filters (main shows the filter options) or with the filters of the user
\* ------------------------------------------------------------------------
InitValidate ==
    /\ pc = "validate"
    /\ ParseIdle
    /\ transactions \in ListsUpTo(TxnPool, MaxTxns)
    /\ region = NoneText
    /\ min_amount = None
    /\ max_amount = None
    /\ filtered_transactions = <<>>
    /\ invalid_count = 0
    /\ summary = NoSummary
    /\ printed = <<>>
    /\ region_stats = <<>>
    /\ MainIdle
    /\ raised = FALSE

\* the assignments of a call validate_and_filter(transactions, reg, lo, hi)
Validate(reg, lo, hi) ==
    LET r == validate_and_filter(transactions, reg, lo, hi)
    IN /\ region' = reg
       /\ min_amount' = lo
       /\ max_amount' = hi
       /\ filtered_transactions' = r.filtered_transactions
       /\ invalid_count' = r.invalid_count
       /\ summary' = r.summary
       /\ printed' = r.printed
       /\ raised' = r.raised

\* main, "[3/10] Filter Options Available": validate_and_filter(parsed_txns)
CallShowOptions ==
    /\ pc = "validate"
    /\ Validate(NoneText, None, None)
    /\ pc' = "shown"
    /\ UNCHANGED <<parseVars, transactions, region_stats, mainVars>>

\* main, "[4/10] Validating transactions": the call with the user's filters
CallValidate ==
    /\ pc = "validate"
    /\ \E reg \in RegionChoices, lo \in MinChoices, hi \in MaxChoices :
           Validate(reg, lo, hi)
    /\ pc' = "validated"
    /\ UNCHANGED <<parseVars, transactions, region_stats, mainVars>>

NextValidate == CallShowOptions \/ CallValidate

SpecValidate == InitValidate /\ [][NextValidate]_vars

\* ------------------------------------------------------------------------
\* Properties of validate_and_filter
\* ------------------------------------------------------------------------
Returned == pc \in {"shown", "validated"}

NoFilters == ~Truthy(region) /\ min_amount = None /\ max_amount = None

\* the five predicates of the validation gate as the specification states them
SpecValid(t) ==
    /\ t.Quantity > 0
    /\ FGt(t.UnitPrice, Num(0))
    /\ startswith(t.TransactionID, "T")
    /\ startswith(t.ProductID, "P")
    /\ startswith(t.CustomerID, "C")

\* C1: without filters validate_and_filter returns exactly the input
\* transactions that satisfy all five predicates, in input order, and the
\* invalid count is the number of transactions failing at least one
\* predicate, each counted once.
C1_ValidExactly ==
    (Returned /\ NoFilters) =>
        /\ filtered_transactions = SelectSeq(transactions, SpecValid)
        /\ invalid_count =
               Cardinality({i \in DOMAIN transactions :
                               ~SpecValid(transactions[i])})

\* a transaction passes the gate when none of its five rejections applies
PassesGate(t) ==
    /\ ~(t.Quantity <= 0)
    /\ ~FLe(t.UnitPrice, Num(0))
    /\ startswith(t.TransactionID, "T")
    /\ startswith(t.ProductID, "P")
    /\ startswith(t.CustomerID, "C")

\* the valid set: the transactions that passed the gate, in input order
ValidSet == SelectSeq(transactions, PassesGate)

SameLetter(c, d) ==
    \/ c = d
    \/ \E i \in DOMAIN Upper : {c, d} = {Upper[i], Lower[i]}

EqualIgnoringCase(a, b) ==
    /\ Len(a) = Len(b)
    /\ \A i \in DOMAIN a : SameLetter(a[i], b[i])

InSuppliedRegion(t) == EqualIgnoringCase(t.Region, region)

\* the valid set after the region step
RegionSet ==
    IF Truthy(region) THEN SelectSeq(ValidSet, InSuppliedRegion) ELSE ValidSet

\* C6: with a region supplied, the region step keeps exactly the valid
\* transactions of that region ignoring case and filtered_by_region is the
\* number it removed, whatever the amount bounds; with no region supplied
\* it removes nothing and filtered_by_region is 0.
C6_RegionFilter ==
    Returned =>
        /\ summary.filtered_by_region = Len(ValidSet) - Len(RegionSet)
        /\ ~Truthy(region) => summary.filtered_by_region = 0
        /\ (min_amount = None /\ max_amount = None) =>
               filtered_transactions = RegionSet
        /\ \A i \in DOMAIN filtered_transactions :
               /\ PassesGate(filtered_transactions[i])
               /\ Truthy(region) => InSuppliedRegion(filtered_transactions[i])

C6_Witness ==
    /\ pc = "validated"
    /\ region = NORTH
    /\ min_amount = None /\ max_amount = None
    /\ transactions = <<TxnNorth, TxnSouth, TxnLower>>
    /\ filtered_transactions = <<TxnNorth, TxnLower>>
    /\ summary.filtered_by_region = 1

InBounds(t) ==
    /\ min_amount # None => FLe(min_amount, Amount(t))
    /\ max_amount # None => FLe(Amount(t), max_amount)

\* C7: with min_amount and/or max_amount supplied, the amount step keeps
\* exactly the transactions of the valid, region-filtered set whose amount
\* lies within the inclusive bounds given, and filtered_by_amount is the
\* number this step removed.
C7_AmountFilter ==
    (Returned /\ (min_amount # None \/ max_amount # None)) =>
        /\ filtered_transactions = SelectSeq(RegionSet, InBounds)
        /\ summary.filtered_by_amount =
               Len(RegionSet) - Len(filtered_transactions)

C7_Witness ==
    /\ pc = "validated"
    /\ region = NORTH
    /\ min_amount = Num(3000) /\ max_amount = Num(3000)
    /\ transactions = <<TxnNorth, TxnSouth, TxnLower>>
    /\ filtered_transactions = <<TxnLower>>
    /\ summary.filtered_by_region = 1
    /\ summary.filtered_by_amount = 1

\* C8: with an empty valid set validate_and_filter does not fail: the
\* amount range is not printed, the returned list is empty, final_count is
\* 0 and invalid equals total_input.
C8_EmptyValidSet ==
    (pc \in {"shown", "validated"} /\ ValidSet = <<>>) =>
        /\ raised = FALSE
        /\ \A i \in DOMAIN printed : printed[i][1] # "Amount Range"
        /\ filtered_transactions = <<>>
        /\ summary.final_count = 0
        /\ summary.total_input = Len(transactions)
        /\ summary.invalid = summary.total_input
        /\ invalid_count = summary.total_input

C8_Witness ==
    /\ pc = "validated"
    /\ transactions = <<TxnZeroQty, TxnAllBad>>
    /\ raised = FALSE
    /\ summary.invalid = 2

\* ------------------------------------------------------------------------
\* Python numeric and sorting primitives of utils/data_processor.py
\* ------------------------------------------------------------------------
\* n / d rounded to the nearest integer, an exact half going to the even
\* side (d > 0)
RoundHalfEven(n, d) ==
    LET q == n \div d
        r == n % d
    IN IF 2 * r < d THEN q
       ELSE IF 2 * r > d THEN q + 1
       ELSE IF q % 2 = 0 THEN q ELSE q + 1

\* round(x, 2)
round2(x) ==
    IF x.k = "num" THEN Num(10 * RoundHalfEven(x.v, 10)) ELSE x

\* 10000 * a / b rounded to the nearest integer (half to even) for b > 0,
\* two decimal digits at a time so that no product leaves 32 bits
RoundedRatio(a, b) ==
    LET x0 == a \div b
        r0 == a % b
        x1 == (100 * r0) \div b
        r1 == (100 * r0) % b
        x2 == (100 * r1) \div b
        r2 == (100 * r1) % b
        q == 10000 * x0 + 100 * x1 + x2
    IN IF 2 * r2 < b THEN q
       ELSE IF 2 * r2 > b THEN q + 1
       ELSE IF q % 2 = 0 THEN q ELSE q + 1

\* round((a / b) * 100, 2) for b > 0
PercentOf(a, b) ==
    IF a.k = "num" /\ b.k = "num" THEN Num(10 * RoundedRatio(a.v, b.v)) ELSE NaN

\* a descending sort that puts an entry in front of the entries of equal
\* key, so that equal keys come out in reverse order
RECURSIVE InsertDescending_Unstable(_, _)
InsertDescending_Unstable(sorted, e) ==
    IF sorted = <<>> THEN <<e>>
    ELSE IF FLe(sorted[1].key, e.key) THEN <<e>> \o sorted
    ELSE <<sorted[1]>> \o InsertDescending_Unstable(Tail(sorted), e)

\* list.sort / sorted with reverse=True on entries [key, item]: an entry
\* goes behind every entry whose key is not smaller (the sort is stable)
RECURSIVE InsertDescending(_, _)
InsertDescending(sorted, e) ==
    IF sorted = <<>> THEN <<e>>
    ELSE IF FLt(sorted[1].key, e.key) THEN <<e>> \o sorted
    ELSE <<sorted[1]>> \o InsertDescending(Tail(sorted), e)

RECURSIVE SortDescendingFrom(_, _)
SortDescendingFrom(sorted, rest) ==
    IF rest = <<>> THEN sorted
    ELSE SortDescendingFrom(InsertDescending(sorted, rest[1]), Tail(rest))

SortDescending(entries) == SortDescendingFrom(<<>>, entries)

\* position of key k in an insertion-ordered dict, 0 when absent
IndexOf(dict, k) ==
    IF \E i \in DOMAIN dict : dict[i].name = k
    THEN CHOOSE i \in DOMAIN dict : dict[i].name = k
    ELSE 0

\* ------------------------------------------------------------------------
\* utils/data_processor.py: region_wise_sales
\* ------------------------------------------------------------------------
\* the aggregation loop assigning the amount to the region's total instead
\* of adding it
RegionAdd_Overwrite(acc, txn) ==
    IF ~HasKeys(txn, {"Region", "Quantity", "UnitPrice"}) THEN acc ELSE
    LET amount == Amount(txn)
        stats == IF IndexOf(acc.region_stats, txn.Region) = 0
                 THEN Append(acc.region_stats,
                             [name |-> txn.Region,
                              total_sales |-> Num(0),
                              transaction_count |-> 0])
                 ELSE acc.region_stats
        i == IndexOf(stats, txn.Region)
    IN [region_stats |->
            [stats EXCEPT ![i].total_sales = amount,
                          ![i].transaction_count = @ + 1],
        total_sales_all_regions |->
            FAdd(acc.total_sales_all_regions, amount)]

\* one iteration of the aggregation loop
RegionAdd(acc, txn) ==
    IF ~HasKeys(txn, {"Region", "Quantity", "UnitPrice"}) THEN acc ELSE
    LET amount == Amount(txn)
        stats == IF IndexOf(acc.region_stats, txn.Region) = 0
                 THEN Append(acc.region_stats,
                             [name |-> txn.Region,
                              total_sales |-> Num(0),
                              transaction_count |-> 0])
                 ELSE acc.region_stats
        i == IndexOf(stats, txn.Region)
    IN [region_stats |->
            [stats EXCEPT ![i].total_sales = FAdd(@, amount),
                          ![i].transaction_count = @ + 1],
        total_sales_all_regions |->
            FAdd(acc.total_sales_all_regions, amount)]

RECURSIVE RegionLoop(_, _)
RegionLoop(acc, txns) ==
    IF txns = <<>> THEN acc
    ELSE RegionLoop(RegionAdd(acc, txns[1]), Tail(txns))

\* RegionPercent dividing without the test for a zero grand total:
\* ok = FALSE is ZeroDivisionError
RegionPercent_Unguarded(total_sales, total_sales_all_regions) ==
    IF FGt(total_sales_all_regions, Num(0))
    THEN [ok |-> TRUE, f |-> PercentOf(total_sales, total_sales_all_regions)]
    ELSE [ok |-> FALSE, f |-> NaN]

\* the percentage of one region: ok = FALSE is ZeroDivisionError
RegionPercent(total_sales, total_sales_all_regions) ==
    IF FGt(total_sales_all_regions, Num(0))
    THEN [ok |-> TRUE, f |-> PercentOf(total_sales, total_sales_all_regions)]
    ELSE [ok |-> TRUE, f |-> Num(0)]

\* the returned mapping is the sequence of its entries in iteration order;
\* raised = TRUE is an exception the loop does not catch (OverflowError of
\* an amount: the except clause names KeyError and TypeError only)
region_wise_sales(txns) ==
    LET agg == RegionLoop([region_stats |-> <<>>,
                           total_sales_all_regions |-> Num(0)], txns)
        stats == agg.region_stats
        done == [i \in DOMAIN stats |->
                    [name |-> stats[i].name,
                     total_sales |-> round2(stats[i].total_sales),
                     transaction_count |-> stats[i].transaction_count,
                     percentage |->
                         round2(RegionPercent(stats[i].total_sales,
                                    agg.total_sales_all_regions).f)]]
        keyed == [i \in DOMAIN done |->
                     [key |-> done[i].total_sales, item |-> done[i]]]
        sorted == SortDescending(keyed)
    IN IF OverflowIn(SelectSeq(txns, LAMBDA t : "Region" \in DOMAIN t))
       THEN [raised |-> TRUE, region_stats |-> <<>>]
       ELSE IF \E i \in DOMAIN stats :
              ~RegionPercent(stats[i].total_sales,
                             agg.total_sales_all_regions).ok
       THEN [raised |-> TRUE, region_stats |-> <<>>]
       ELSE [raised |-> FALSE,
             region_stats |-> [i \in DOMAIN sorted |-> sorted[i].item]]

\* list.sort on entries [key, item] in ascending order of key (stable)
RECURSIVE InsertAscending(_, _)
InsertAscending(sorted, e) ==
    IF sorted = <<>> THEN <<e>>
    ELSE IF FLt(e.key, sorted[1].key) THEN <<e>> \o sorted
    ELSE <<sorted[1]>> \o InsertAscending(Tail(sorted), e)

RECURSIVE SortAscendingFrom(_, _)
SortAscendingFrom(sorted, rest) ==
    IF rest = <<>> THEN sorted
    ELSE SortAscendingFrom(InsertAscending(sorted, rest[1]), Tail(rest))

SortAscending(entries) == SortAscendingFrom(<<>>, entries)

Items(entries) == [i \in DOMAIN entries |-> entries[i].item]

\* seq[:n]: a negative n counts from the end
Take(seq, k) ==
    IF k >= Len(seq) THEN seq
    ELSE IF k >= 0 THEN SubSeq(seq, 1, k)
    ELSE IF Len(seq) + k > 0 THEN SubSeq(seq, 1, Len(seq) + k)
    ELSE <<>>

\* ------------------------------------------------------------------------
\* utils/data_processor.py: calculate_total_revenue
\* ------------------------------------------------------------------------
\* one iteration of the loop with each product rounded before it is added
RevenueAdd_PerRecord(total_revenue_, txn) ==
    IF HasKeys(txn, {"Quantity", "UnitPrice"})
    THEN FAdd(total_revenue_, round2(Amount(txn)))
    ELSE total_revenue_

\* one iteration of the loop: KeyError skips the record
RevenueAdd(total_revenue_, txn) ==
    IF HasKeys(txn, {"Quantity", "UnitPrice"})
    THEN FAdd(total_revenue_, Amount(txn))
    ELSE total_revenue_

RECURSIVE RevenueLoop(_, _)
RevenueLoop(total_revenue_, txns) ==
    IF txns = <<>> THEN total_revenue_
    ELSE RevenueLoop(RevenueAdd(total_revenue_, txns[1]), Tail(txns))

calculate_total_revenue(txns) == round2(RevenueLoop(Num(0), txns))

\* ------------------------------------------------------------------------
\* utils/data_processor.py: top_selling_products, low_performing_products
\* ------------------------------------------------------------------------
\* the aggregation loop counting one unit for each sale instead of adding
\* its quantity
ProductAdd_CountsSales(product_stats, txn) ==
    IF ~HasKeys(txn, {"ProductName", "Quantity", "UnitPrice"})
    THEN product_stats ELSE
    LET stats == IF IndexOf(product_stats, txn.ProductName) = 0
                 THEN Append(product_stats,
                             [name |-> txn.ProductName,
                              total_quantity |-> 0,
                              total_revenue |-> Num(0)])
                 ELSE product_stats
        i == IndexOf(stats, txn.ProductName)
    IN [stats EXCEPT ![i].total_quantity = @ + 1,
                     ![i].total_revenue = FAdd(@, Amount(txn))]

\* one iteration of the aggregation loop of either function
ProductAdd(product_stats, txn) ==
    IF ~HasKeys(txn, {"ProductName", "Quantity", "UnitPrice"})
    THEN product_stats ELSE
    LET stats == IF IndexOf(product_stats, txn.ProductName) = 0
                 THEN Append(product_stats,
                             [name |-> txn.ProductName,
                              total_quantity |-> 0,
                              total_revenue |-> Num(0)])
                 ELSE product_stats
        i == IndexOf(stats, txn.ProductName)
    IN [stats EXCEPT ![i].total_quantity = @ + txn.Quantity,
                     ![i].total_revenue = FAdd(@, Amount(txn))]

RECURSIVE ProductLoop(_, _)
ProductLoop(product_stats, txns) ==
    IF txns = <<>> THEN product_stats
    ELSE ProductLoop(ProductAdd(product_stats, txns[1]), Tail(txns))

\* the tuple (product, total_quantity, round(total_revenue, 2)), with the
\* sort key total_quantity
ProductTuple(stats) ==
    [key |-> Num(stats.total_quantity),
     item |-> <<stats.name, stats.total_quantity,
                round2(stats.total_revenue)>>]

\* top_selling_products slicing the list before it is sorted
top_selling_products_CutFirst(txns, n) ==
    LET product_stats == ProductLoop(<<>>, txns)
        product_list == [i \in DOMAIN product_stats |->
                            ProductTuple(product_stats[i])]
    IN Items(SortDescending(Take(product_list, n)))

top_selling_products(txns, n) ==
    LET product_stats == ProductLoop(<<>>, txns)
        product_list == [i \in DOMAIN product_stats |->
                            ProductTuple(product_stats[i])]
    IN Take(Items(SortDescending(product_list)), n)

\* the filter keeping a total quantity equal to the threshold too
BelowThreshold_Inclusive(stats, threshold_) ==
    stats.total_quantity <= threshold_

\* if stats["total_quantity"] < threshold
BelowThreshold(stats, threshold_) == stats.total_quantity < threshold_

low_performing_products(txns, threshold_) ==
    LET product_stats == ProductLoop(<<>>, txns)
        Low(stats) == BelowThreshold(stats, threshold_)
        low == SelectSeq(product_stats, Low)
        tuples == [i \in DOMAIN low |-> ProductTuple(low[i])]
    IN Items(SortAscending(tuples))

\* ------------------------------------------------------------------------
\* utils/data_processor.py: customer_analysis
\* ------------------------------------------------------------------------
\* the aggregation loop keeping only the product of the latest purchase
CustomerAdd_LastProduct(customer_stats_, txn) ==
    IF ~HasKeys(txn, {"CustomerID", "ProductName", "Quantity", "UnitPrice"})
    THEN customer_stats_ ELSE
    LET stats == IF IndexOf(customer_stats_, txn.CustomerID) = 0
                 THEN Append(customer_stats_,
                             [name |-> txn.CustomerID,
                              total_spent |-> Num(0),
                              purchase_count |-> 0,
                              products_bought |-> {}])
                 ELSE customer_stats_
        i == IndexOf(stats, txn.CustomerID)
    IN [stats EXCEPT ![i].total_spent = FAdd(@, Amount(txn)),
                     ![i].purchase_count = @ + 1,
                     ![i].products_bought = {txn.ProductName}]

\* one iteration of the aggregation loop
CustomerAdd(customer_stats_, txn) ==
    IF ~HasKeys(txn, {"CustomerID", "ProductName", "Quantity", "UnitPrice"})
    THEN customer_stats_ ELSE
    LET stats == IF IndexOf(customer_stats_, txn.CustomerID) = 0
                 THEN Append(customer_stats_,
                             [name |-> txn.CustomerID,
                              total_spent |-> Num(0),
                              purchase_count |-> 0,
                              products_bought |-> {}])
                 ELSE customer_stats_
        i == IndexOf(stats, txn.CustomerID)
    IN [stats EXCEPT ![i].total_spent = FAdd(@, Amount(txn)),
                     ![i].purchase_count = @ + 1,
                     ![i].products_bought = @ \cup {txn.ProductName}]

RECURSIVE CustomerLoop(_, _)
CustomerLoop(customer_stats_, txns) ==
    IF txns = <<>> THEN customer_stats_
    ELSE CustomerLoop(CustomerAdd(customer_stats_, txns[1]), Tail(txns))

\* the average taken without dividing by the count
AvgOrderValue_Undivided(total_spent, count) ==
    IF count > 0 THEN round2(total_spent) ELSE Num(0)

\* round(total_spent / count, 2) if count > 0 else 0.0
AvgOrderValue(total_spent, count) ==
    IF count > 0
    THEN IF total_spent.k = "num"
         THEN Num(10 * RoundHalfEven(total_spent.v, 10 * count))
         ELSE NaN
    ELSE Num(0)

customer_analysis(txns) ==
    LET stats == CustomerLoop(<<>>, txns)
        final == [i \in DOMAIN stats |->
                     [name |-> stats[i].name,
                      total_spent |-> round2(stats[i].total_spent),
                      purchase_count |-> stats[i].purchase_count,
                      avg_order_value |->
                          AvgOrderValue(stats[i].total_spent,
                                        stats[i].purchase_count),
                      products_bought |->
                          SortedTexts(stats[i].products_bought)]]
    IN Items(SortDescending([i \in DOMAIN final |->
                                [key |-> final[i].total_spent,
                                 item |-> final[i]]]))

\* ------------------------------------------------------------------------
\* utils/data_processor.py: daily_sales_trend, find_peak_sales_day
\* ------------------------------------------------------------------------
DailyAdd(daily_stats_, txn) ==
    IF ~HasKeys(txn, {"Date", "CustomerID", "Quantity", "UnitPrice"})
    THEN daily_stats_ ELSE
    LET stats == IF IndexOf(daily_stats_, txn.Date) = 0
                 THEN Append(daily_stats_,
                             [name |-> txn.Date,
                              revenue |-> Num(0),
                              transaction_count |-> 0,
                              unique_customers |-> {}])
                 ELSE daily_stats_
        i == IndexOf(stats, txn.Date)
    IN [stats EXCEPT ![i].revenue = FAdd(@, Amount(txn)),
                     ![i].transaction_count = @ + 1,
                     ![i].unique_customers = @ \cup {txn.CustomerID}]

RECURSIVE DailyLoop(_, _)
DailyLoop(daily_stats_, txns) ==
    IF txns = <<>> THEN daily_stats_
    ELSE DailyLoop(DailyAdd(daily_stats_, txns[1]), Tail(txns))

\* daily_sales_trend returning the dates in the order they were first seen
daily_sales_trend_Unsorted(txns) ==
    LET daily == DailyLoop(<<>>, txns)
    IN [d \in DOMAIN daily |->
           [name |-> daily[d].name,
            revenue |-> round2(daily[d].revenue),
            transaction_count |-> daily[d].transaction_count,
            unique_customers |-> Cardinality(daily[d].unique_customers)]]

daily_sales_trend(txns) ==
    LET daily == DailyLoop(<<>>, txns)
        dates == SortedTexts({daily[i].name : i \in DOMAIN daily})
    IN [d \in DOMAIN dates |->
           LET stats == daily[IndexOf(daily, dates[d])]
           IN [name |-> stats.name,
               revenue |-> round2(stats.revenue),
               transaction_count |-> stats.transaction_count,
               unique_customers |-> Cardinality(stats.unique_customers)]]

\* one iteration of the aggregation loop of find_peak_sales_day
PeakAdd(daily_totals, txn) ==
    IF ~HasKeys(txn, {"Date", "Quantity", "UnitPrice"})
    THEN daily_totals ELSE
    LET stats == IF IndexOf(daily_totals, txn.Date) = 0
                 THEN Append(daily_totals,
                             [name |-> txn.Date,
                              revenue |-> Num(0),
                              transaction_count |-> 0])
                 ELSE daily_totals
        i == IndexOf(stats, txn.Date)
    IN [stats EXCEPT ![i].revenue = FAdd(@, Amount(txn)),
                     ![i].transaction_count = @ + 1]

RECURSIVE PeakTotals(_, _)
PeakTotals(daily_totals, txns) ==
    IF txns = <<>> THEN daily_totals
    ELSE PeakTotals(PeakAdd(daily_totals, txns[1]), Tail(txns))

\* one iteration of the loop that looks for the peak
PeakStep(peak, stats) ==
    IF FGt(stats.revenue, peak.revenue)
    THEN [date |-> stats.name, revenue |-> stats.revenue,
          transaction_count |-> stats.transaction_count]
    ELSE peak

RECURSIVE PeakLoop(_, _)
PeakLoop(peak, daily_totals) ==
    IF daily_totals = <<>> THEN peak
    ELSE PeakLoop(PeakStep(peak, daily_totals[1]), Tail(daily_totals))

find_peak_sales_day(txns) ==
    LET daily_totals == PeakTotals(<<>>, txns)
        peak == PeakLoop([date |-> NoneText, revenue |-> Num(0),
                          transaction_count |-> 0], daily_totals)
    IN <<peak.date, round2(peak.revenue), peak.transaction_count>>

\* ------------------------------------------------------------------------
\* Inputs of region_wise_sales: five regions, amounts 1.0 and 3.0, a unit
\* price below one cent and an amount of zero
\* ------------------------------------------------------------------------
Sale(reg, qty, price) ==
    Txn(<<"T", "1">>, <<"0", "1">>, <<"P", "1">>, <<"A">>, qty, price,
        <<"C", "1">>, reg)

SalesPool == {Sale(<<"N">>, 1, Num(1000)),
              Sale(<<"S">>, 1, Num(1000)),
              Sale(<<"E">>, 1, Num(1000)),
              Sale(<<"W">>, 1, Num(1000)),
              Sale(<<"C">>, 3, Num(1000)),
              Sale(<<"N">>, 1, Num(4)),
              Sale(<<"S">>, 1, Num(0))}

\* ------------------------------------------------------------------------
\* Specification of region_wise_sales: one call
\* ------------------------------------------------------------------------
InitRegion ==
    /\ pc = "analyse"
    /\ ParseIdle
    /\ transactions \in ListsUpTo(SalesPool, MaxSales)
    /\ region = NoneText
    /\ min_amount = None
    /\ max_amount = None
    /\ filtered_transactions = <<>>
    /\ invalid_count = 0
    /\ summary = NoSummary
    /\ printed = <<>>
    /\ region_stats = <<>>
    /\ MainIdle
    /\ raised = FALSE

CallRegionWiseSales ==
    /\ pc = "analyse"
    /\ region_stats' = region_wise_sales(transactions).region_stats
    /\ raised' = region_wise_sales(transactions).raised
    /\ pc' = "regions"
    /\ UNCHANGED <<parseVars, transactions, region, min_amount, max_amount,
                   filtered_transactions, invalid_count, summary, printed,
                   mainVars>>

NextRegion == CallRegionWiseSales

SpecRegion == InitRegion /\ [][NextRegion]_vars

\* ------------------------------------------------------------------------
\* Properties of region_wise_sales
\* ------------------------------------------------------------------------
\* the positions of the transactions of a region
PositionsIn(reg) == {i \in DOMAIN transactions : transactions[i].Region = reg}

RECURSIVE SumAmountsAt(_)
SumAmountsAt(positions) ==
    IF positions = {} THEN 0
    ELSE LET i == CHOOSE j \in positions : TRUE
         IN Amount(transactions[i]).v + SumAmountsAt(positions \ {i})

FirstSeen(reg) ==
    CHOOSE i \in PositionsIn(reg) : \A j \in PositionsIn(reg) : i <= j

\* one entry per distinct region, with the count of its transactions
RegionEntries ==
    /\ \A i, j \in DOMAIN region_stats :
           region_stats[i].name = region_stats[j].name => i = j
    /\ {region_stats[i].name : i \in DOMAIN region_stats}
           = {transactions[i].Region : i \in DOMAIN transactions}
    /\ \A i \in DOMAIN region_stats :
           region_stats[i].transaction_count
               = Cardinality(PositionsIn(region_stats[i].name))

\* descending total_sales, equal totals in first-seen order
RegionOrder ==
    \A i, j \in DOMAIN region_stats :
        i < j =>
            \/ region_stats[i].total_sales.v > region_stats[j].total_sales.v
            \/ /\ region_stats[i].total_sales.v = region_stats[j].total_sales.v
               /\ FirstSeen(region_stats[i].name)
                      < FirstSeen(region_stats[j].name)

\* C9 as stated: total_sales is the sum of the amounts of the region
C9_RegionTotalsExact ==
    pc = "regions" =>
        /\ RegionEntries
        /\ RegionOrder
        /\ \A i \in DOMAIN region_stats :
               region_stats[i].total_sales.v
                   = SumAmountsAt(PositionsIn(region_stats[i].name))

\* a multiple of 0.01 nearest to the exact value x (in thousandths)
NearestCent(rounded, x) ==
    /\ rounded % 10 = 0
    /\ rounded - x <= 5
    /\ x - rounded <= 5

\* C9: region_wise_sales returns one entry per distinct region, with the
\* count of its transactions and total_sales the sum of its amounts rounded
\* to 2 decimals, ordered by the returned total_sales descending; regions of
\* equal total_sales are in first-encountered order.
C9_RegionTotalsRounded ==
    pc = "regions" =>
        /\ raised = FALSE
        /\ RegionEntries
        /\ RegionOrder
        /\ \A i \in DOMAIN region_stats :
               NearestCent(region_stats[i].total_sales.v,
                           SumAmountsAt(PositionsIn(region_stats[i].name)))

C9_Witness ==
    /\ pc = "regions"
    /\ transactions = <<Sale(<<"S">>, 1, Num(1000)),
                        Sale(<<"N">>, 1, Num(1000)),
                        Sale(<<"N">>, 1, Num(4)),
                        Sale(<<"C">>, 3, Num(1000))>>
    /\ [i \in DOMAIN region_stats |-> region_stats[i].name]
           = <<<<"C">>, <<"S">>, <<"N">>>>
    /\ region_stats[3].total_sales = Num(1000)
    /\ region_stats[3].transaction_count = 2

RECURSIVE SumPercentages(_)
SumPercentages(stats) ==
    IF stats = <<>> THEN 0
    ELSE stats[1].percentage.v + SumPercentages(Tail(stats))

GrandTotal == SumAmountsAt(DOMAIN transactions)

Distance(x, y) == IF x >= y THEN x - y ELSE y - x

ZeroGrandTotal ==
    GrandTotal = 0 =>
        /\ raised = FALSE
        /\ \A i \in DOMAIN region_stats : region_stats[i].percentage = Num(0)

\* C10 as stated: with a grand total > 0 the percentages sum to 100.0
\* within 0.01 for any number of regions
C10_PercentagesWithinOneCent ==
    pc = "regions" =>
        /\ GrandTotal > 0 =>
               Distance(SumPercentages(region_stats), 100000) <= 10
        /\ ZeroGrandTotal

\* C10: with a grand total > 0 the percentages, each rounded to 2 decimals,
\* sum to 100.0 within 0.005 for each region; with a grand total of 0 every
\* percentage is 0.0 and there is no division by zero.
C10_PercentagesHalfCentEach ==
    pc = "regions" =>
        /\ GrandTotal > 0 =>
               /\ raised = FALSE
               /\ Distance(SumPercentages(region_stats), 100000)
                      <= 5 * Len(region_stats)
               /\ \A i \in DOMAIN region_stats :
                      region_stats[i].percentage.v % 10 = 0
        /\ ZeroGrandTotal

C10_Witness ==
    /\ pc = "regions"
    /\ Len(region_stats) = 5
    /\ SumPercentages(region_stats) = 100020

C10_WitnessZero ==
    /\ pc = "regions"
    /\ Len(region_stats) = 1
    /\ GrandTotal = 0

\* ------------------------------------------------------------------------
\* utils/file_handler.py: read_sales_data
\* ------------------------------------------------------------------------
\* [line.strip() for line in raw_lines if line.strip()]
RECURSIVE NonBlankStripped(_)
NonBlankStripped(raw) ==
    IF raw = <<>> THEN <<>>
    ELSE (IF strip(raw[1]) # <<>> THEN <<strip(raw[1])>> ELSE <<>>)
             \o NonBlankStripped(Tail(raw))

\* raised = TRUE is FileNotFoundError
read_sales_data(f) ==
    IF ~f.exists
    THEN [raised |-> TRUE, lines |-> <<>>, discarded |-> 0]
    ELSE LET total_lines == Len(f.lines)
             lines == NonBlankStripped(IF f.lines = <<>> THEN <<>>
                                       ELSE Tail(f.lines))
         IN [raised |-> FALSE,
             lines |-> lines,
             discarded |-> total_lines - 1 - Len(lines)]

\* ------------------------------------------------------------------------
\* main.py: main, from the start to the end of the analysis stage
\* ------------------------------------------------------------------------
Header == <<"T", "i", "d", "|", "D", "a", "t", "e">>

\* a third line that parses and is valid: amount 10.0 in region S
ThirdGoodLine == Join(<<<<"T", "3">>, <<"0", "6">>, <<"P", "2">>, <<"B">>,
                        <<"2">>, <<"5">>, <<"C", "2">>, <<"S">>>>, "|")

\* a line the parser accepts and the validator rejects (product id Q1),
\* with a quantity beyond the float range
HugeInvalidLine == Join(<<<<"T", "4">>, <<"0", "6">>, <<"Q", "1">>, <<"A">>,
                          <<"2", "0", "0", "0">>, <<"5">>, <<"C", "2">>,
                          <<"S">>>>, "|")

\* a line the parser and the validator accept, with such a quantity
HugeValidLine == Join(<<<<"T", "5">>, <<"0", "6">>, <<"P", "1">>, <<"A">>,
                        <<"2", "0", "0", "0">>, <<"5">>, <<"C", "2">>,
                        <<"S">>>>, "|")

FileLines == {GoodLine, OtherGoodLine, ThirdGoodLine, SevenFields, <<" ">>,
              HugeInvalidLine, HugeValidLine}

Files ==
    {NoFile, [exists |-> TRUE, lines |-> <<>>]}
        \cup {[exists |-> TRUE, lines |-> <<Header>> \o body] :
                 body \in ListsUpTo(FileLines, MaxFile)}

\* what the user types at the prompts
RegionInputs == {<<>>, <<"s">>}

MinInputs == {<<>>, <<"2", "0">>, <<"x">>}

MaxInputs == {<<>>, <<"2", "0">>}

InitMain ==
    /\ pc = "main"
    /\ file \in Files
    /\ ParseIdle
    /\ ValidateIdle
    /\ region_stats = <<>>
    /\ discarded_read = 0
    /\ total_revenue = Num(0)
    /\ top_products = <<>>
    /\ peak_day = <<>>
    /\ output_file = <<>>
    /\ AnalysisIdle
    /\ raised = FALSE

\* the exception handler of main: its print goes to sys.stdout; on the
\* console the message appears and main returns, on a Tee whose file is
\* closed the write raises ValueError and the exception leaves main
Handler ==
    /\ raised' = TRUE
    /\ IF stdout = "console"
       THEN /\ printed' = Append(printed,
                                 <<"An error occurred during execution">>)
            /\ pc' = "main_failed"
       ELSE /\ printed' = printed
            /\ pc' = "main_crashed"

\* "[1/10] Reading sales data": read_sales_data succeeds
MainRead ==
    /\ pc = "main"
    /\ ~read_sales_data(file).raised
    /\ raw_lines' = read_sales_data(file).lines
    /\ discarded_read' = read_sales_data(file).discarded
    /\ printed' = Append(printed, <<"Successfully read",
                                    Len(read_sales_data(file).lines)>>)
    /\ pc' = "main_parse"
    /\ UNCHANGED <<parsed_transactions, discarded_count, discarded_records,
                   total_records, transactions, region, min_amount,
                   max_amount, filtered_transactions, invalid_count, summary,
                   region_stats, file, total_revenue, top_products, peak_day,
                   output_file, analysisVars, raised>>

\* "[1/10] Reading sales data": read_sales_data raises
MainReadFails ==
    /\ pc = "main"
    /\ read_sales_data(file).raised
    /\ Handler
    /\ UNCHANGED <<parseVars, transactions, region, min_amount, max_amount,
                   filtered_transactions, invalid_count, summary,
                   region_stats, mainVars>>

\* "[2/10] Parsing and cleaning data"
MainParse ==
    /\ pc = "main_parse"
    /\ LET r == parse_transactions(raw_lines)
       IN /\ parsed_transactions' = r.parsed_transactions
          /\ discarded_count' = r.discarded_count
          /\ discarded_records' = r.discarded_records
          /\ total_records' = r.total_records
          /\ printed' = Append(printed,
                               <<"Parsed", Len(r.parsed_transactions)>>)
    /\ pc' = "main_options"
    /\ UNCHANGED <<raw_lines, transactions, region, min_amount, max_amount,
                   filtered_transactions, invalid_count, summary,
                   region_stats, mainVars, raised>>

\* "[3/10] Filter Options Available": the result of the call is dropped
MainShowOptions ==
    /\ pc = "main_options"
    /\ ~validate_and_filter(parsed_transactions, NoneText, None, None).raised
    /\ transactions' = parsed_transactions
    /\ printed' = printed
           \o validate_and_filter(parsed_transactions,
                                  NoneText, None, None).printed
    /\ pc' = "main_prompt"
    /\ UNCHANGED <<parseVars, region, min_amount, max_amount,
                   filtered_transactions, invalid_count, summary,
                   region_stats, mainVars, raised>>

\* "[3/10] Filter Options Available": validate_and_filter raises
MainShowOptionsFails ==
    /\ pc = "main_options"
    /\ validate_and_filter(parsed_transactions, NoneText, None, None).raised
    /\ Handler
    /\ UNCHANGED <<parseVars, transactions, region, min_amount, max_amount,
                   filtered_transactions, invalid_count, summary,
                   region_stats, mainVars>>

\* input(...).strip() or None
OrNone(text) == IF strip(text) = <<>> THEN NoneText ELSE strip(text)

\* float(text) if text else None
FloatOrNone(text) == IF strip(text) = <<>> THEN None ELSE float(strip(text)).f

\* float(text) raises ValueError
BadAmount(text) == strip(text) # <<>> /\ ~float(strip(text)).ok

\* the answer to "Do you want to filter data?" is not y
MainPromptNo ==
    /\ pc = "main_prompt"
    /\ region' = NoneText
    /\ min_amount' = None
    /\ max_amount' = None
    /\ pc' = "main_validate"
    /\ UNCHANGED <<parseVars, transactions, filtered_transactions,
                   invalid_count, summary, printed, region_stats, mainVars,
                   raised>>

\* the answer is y and the three inputs convert
MainPromptYes ==
    /\ pc = "main_prompt"
    /\ \E r \in RegionInputs, lo \in MinInputs, hi \in MaxInputs :
           /\ ~BadAmount(lo) /\ ~BadAmount(hi)
           /\ region' = OrNone(r)
           /\ min_amount' = FloatOrNone(lo)
           /\ max_amount' = FloatOrNone(hi)
    /\ pc' = "main_validate"
    /\ UNCHANGED <<parseVars, transactions, filtered_transactions,
                   invalid_count, summary, printed, region_stats, mainVars,
                   raised>>

\* the answer is y and float() raises on an amount
MainPromptFails ==
    /\ pc = "main_prompt"
    /\ \E r \in RegionInputs, lo \in MinInputs, hi \in MaxInputs :
           /\ BadAmount(lo) \/ BadAmount(hi)
           /\ region' = OrNone(r)
           /\ min_amount' = IF BadAmount(lo) THEN None ELSE FloatOrNone(lo)
           /\ max_amount' = None
    /\ Handler
    /\ UNCHANGED <<parseVars, transactions, filtered_transactions,
                   invalid_count, summary, region_stats, mainVars>>

\* "[4/10] Validating transactions"
MainValidate ==
    /\ pc = "main_validate"
    /\ LET r == validate_and_filter(parsed_transactions, region,
                                    min_amount, max_amount)
       IN /\ filtered_transactions' = r.filtered_transactions
          /\ invalid_count' = r.invalid_count
          /\ summary' = r.summary
          /\ printed' = Append(printed \o r.printed,
                               <<"Valid", Len(r.filtered_transactions),
                                 "Invalid", r.invalid_count>>)
    /\ pc' = "main_discarded"
    /\ UNCHANGED <<parseVars, transactions, region, min_amount, max_amount,
                   region_stats, mainVars, raised>>

\* the summary of the discarded records, appended to the output file
MainWriteDiscarded ==
    /\ pc = "main_discarded"
    /\ output_file' = output_file
           \o <<<<"Read-level discarded", discarded_read>>,
                <<"Cleaning-level discarded", discarded_count>>,
                <<"Validation-level invalid", invalid_count>>,
                <<"Discarded Records", discarded_records>>>>
    /\ pc' = "main_analyse"
    /\ UNCHANGED <<parseVars, validateVars, region_stats, file,
                   discarded_read, total_revenue, top_products, peak_day,
                   analysisVars, raised>>

\* "[5/10] Analyzing sales data": the output file is opened for appending
\* and sys.stdout becomes a Tee that writes to it
MainRedirect ==
    /\ pc = "main_analyse"
    /\ printed' = Append(printed, <<"Analyzing sales data">>)
    /\ stdout' = "file"
    /\ output_file' = Append(output_file, <<"SALES ANALYSIS RESULTS">>)
    /\ pc' = "main_redirected"
    /\ UNCHANGED <<parseVars, transactions, region, min_amount, max_amount,
                   filtered_transactions, invalid_count, summary,
                   region_stats, file, discarded_read, total_revenue,
                   top_products, peak_day, top_n, threshold, low_products,
                   customer_stats, daily_stats, product_mapping,
                   enriched_transactions, reenriched_transactions,
                   api_products, enriched_file, report_file, calls, raised>>

\* the seven aggregations: parsed_txns is parsed_transactions and valid_txns
\* is filtered_transactions; every print goes to the output file; the last
\* statement of the with block sets sys.stdout back
MainAnalyse ==
    /\ pc = "main_redirected"
    /\ ~region_wise_sales(parsed_transactions).raised
    /\ total_revenue' = calculate_total_revenue(filtered_transactions)
    /\ region_stats' = region_wise_sales(parsed_transactions).region_stats
    /\ top_products' = top_selling_products(filtered_transactions, 5)
    /\ peak_day' = find_peak_sales_day(parsed_transactions)
    /\ output_file' = output_file
           \o <<<<"Total Revenue",
                  calculate_total_revenue(filtered_transactions)>>,
                <<"Region-wise Sales",
                  region_wise_sales(parsed_transactions).region_stats>>,
                <<"Top Selling Products",
                  top_selling_products(filtered_transactions, 5)>>,
                <<"Peak Sales Day", find_peak_sales_day(parsed_transactions)>>,
                <<"Low Performing Products",
                  low_performing_products(filtered_transactions, 10)>>,
                <<"Customer Analysis",
                  customer_analysis(filtered_transactions)>>,
                <<"Daily Sales Trend",
                  daily_sales_trend(parsed_transactions)>>>>
    /\ stdout' = "console"
    /\ printed' = Append(printed, <<"Analysis complete">>)
    /\ pc' = "main_analysed"
    /\ UNCHANGED <<parseVars, transactions, region, min_amount, max_amount,
                   filtered_transactions, invalid_count, summary, file,
                   discarded_read, top_n, threshold, low_products,
                   customer_stats, daily_stats, product_mapping,
                   enriched_transactions, reenriched_transactions,
                   api_products, enriched_file, report_file, calls, raised>>

\* region_wise_sales raises inside the with block: the total revenue and
\* the label of the region section are in the file, the with statement
\* closes the file on the way out, and the assignment that sets sys.stdout
\* back is skipped, so sys.stdout stays the Tee of the closed file
MainAnalyseFails ==
    /\ pc = "main_redirected"
    /\ region_wise_sales(parsed_transactions).raised
    /\ total_revenue' = calculate_total_revenue(filtered_transactions)
    /\ output_file' = output_file
           \o <<<<"Total Revenue",
                  calculate_total_revenue(filtered_transactions)>>,
                <<"Region-wise Sales">>>>
    /\ stdout' = "closed"
    /\ pc' = "main_except"
    /\ UNCHANGED <<parseVars, validateVars, region_stats, file,
                   discarded_read, top_products, peak_day, top_n, threshold,
                   low_products, customer_stats, daily_stats, product_mapping,
                   enriched_transactions, reenriched_transactions,
                   api_products, enriched_file, report_file, calls, raised>>

\* the except clause of main, entered from the analysis stage
MainHandleAnalysisError ==
    /\ pc = "main_except"
    /\ Handler
    /\ UNCHANGED <<parseVars, transactions, region, min_amount, max_amount,
                   filtered_transactions, invalid_count, summary,
                   region_stats, mainVars>>

\* the entry the analysis stage wrote to the output file under a label
Reported(label) ==
    LET i == CHOOSE j \in DOMAIN output_file : output_file[j][1] = label
    IN output_file[i][2]

\* C5: in main every aggregation is computed over the valid, filtered list
\* returned by validate_and_filter, never over the parsed list.
C5_AggregatesOverValid ==
    pc = "main_analysed" =>
        /\ total_revenue = calculate_total_revenue(filtered_transactions)
        /\ region_stats = region_wise_sales(filtered_transactions).region_stats
        /\ top_products = top_selling_products(filtered_transactions, 5)
        /\ peak_day = find_peak_sales_day(filtered_transactions)
        /\ Reported("Low Performing Products")
               = low_performing_products(filtered_transactions, 10)
        /\ Reported("Customer Analysis")
               = customer_analysis(filtered_transactions)
        /\ Reported("Daily Sales Trend")
               = daily_sales_trend(filtered_transactions)

\* ------------------------------------------------------------------------
\* Inputs of calculate_total_revenue: amounts with a fraction of a cent and
\* records that lack one or both of the fields the function reads
\* ------------------------------------------------------------------------
MaxRecords == 4

\* amount 1.004
SubCent == Txn(<<"T", "1">>, <<"0", "1">>, <<"P", "1">>, <<"A">>,
               1, Num(1004), <<"C", "1">>, <<"N">>)

\* amount 1.0
WholeCent == Txn(<<"T", "2">>, <<"0", "1">>, <<"P", "2">>, <<"B">>,
                 2, Num(500), <<"C", "2">>, <<"S">>)

\* a record with exactly the two fields the function reads, amount 0.006
OnlyAmount == [Quantity |-> 3, UnitPrice |-> Num(2)]

NoQuantity == [TransactionID |-> <<"T", "3">>, UnitPrice |-> Num(1004)]

NoUnitPrice == [TransactionID |-> <<"T", "4">>, Quantity |-> 2]

NoFields == [TransactionID |-> <<"T", "5">>]

RecordPool == {SubCent, WholeCent, OnlyAmount, NoQuantity, NoUnitPrice,
               NoFields}

\* ------------------------------------------------------------------------
\* Specification of calculate_total_revenue: one call
\* ------------------------------------------------------------------------
InitRevenue ==
    /\ pc = "analyse"
    /\ ParseIdle
    /\ transactions \in ListsUpTo(RecordPool, MaxRecords)
    /\ region = NoneText
    /\ min_amount = None
    /\ max_amount = None
    /\ filtered_transactions = <<>>
    /\ invalid_count = 0
    /\ summary = NoSummary
    /\ printed = <<>>
    /\ region_stats = <<>>
    /\ MainIdle
    /\ raised = FALSE

CallTotalRevenue ==
    /\ pc = "analyse"
    /\ total_revenue' = calculate_total_revenue(transactions)
    /\ pc' = "revenue"
    /\ UNCHANGED <<parseVars, validateVars, region_stats, file,
                   discarded_read, top_products, peak_day, output_file,
                   analysisVars, raised>>

NextRevenue == CallTotalRevenue

SpecRevenue == InitRevenue /\ [][NextRevenue]_vars

\* ------------------------------------------------------------------------
\* Properties of calculate_total_revenue
\* ------------------------------------------------------------------------
\* the positions of the records that have both fields
WithBothFields ==
    {i \in DOMAIN transactions :
        {"Quantity", "UnitPrice"} \subseteq DOMAIN transactions[i]}

\* C12: calculate_total_revenue returns the sum of quantity * unit_price
\* over the records that have both fields, rounded to 2 decimals once at the
\* end; a record that lacks a field is skipped without failing; the result
\* on the empty list is 0.0.
C12_TotalRevenue ==
    pc = "revenue" =>
        /\ raised = FALSE
        /\ total_revenue.k = "num"
        /\ NearestCent(total_revenue.v, SumAmountsAt(WithBothFields))
        /\ transactions = <<>> => total_revenue = Num(0)

C12_Witness ==
    /\ pc = "revenue"
    /\ transactions = <<SubCent, NoQuantity, SubCent, SubCent>>
    /\ total_revenue = Num(3010)

\* ------------------------------------------------------------------------
\* Inputs of the two totals: four regions, amounts 1.004, 1.006 and 1.0
\* ------------------------------------------------------------------------
MaxTotals == 4

TotalsPool == {Sale(<<"N">>, 1, Num(1004)),
               Sale(<<"S">>, 1, Num(1004)),
               Sale(<<"E">>, 1, Num(1004)),
               Sale(<<"W">>, 1, Num(1004)),
               Sale(<<"N">>, 1, Num(1006)),
               Sale(<<"S">>, 2, Num(500))}

\* ------------------------------------------------------------------------
\* Specification of the two totals: calculate_total_revenue, then
\* region_wise_sales over the same list
\* ------------------------------------------------------------------------
InitTotals ==
    /\ pc = "analyse"
    /\ ParseIdle
    /\ transactions \in ListsUpTo(TotalsPool, MaxTotals)
    /\ region = NoneText
    /\ min_amount = None
    /\ max_amount = None
    /\ filtered_transactions = <<>>
    /\ invalid_count = 0
    /\ summary = NoSummary
    /\ printed = <<>>
    /\ region_stats = <<>>
    /\ MainIdle
    /\ raised = FALSE

CallRegionsAfterRevenue ==
    /\ pc = "revenue"
    /\ region_stats' = region_wise_sales(transactions).region_stats
    /\ raised' = region_wise_sales(transactions).raised
    /\ pc' = "totals"
    /\ UNCHANGED <<parseVars, validateVars, mainVars>>

NextTotals ==
    \/ CallTotalRevenue
    \/ CallRegionsAfterRevenue

SpecTotals == InitTotals /\ [][NextTotals]_vars

\* ------------------------------------------------------------------------
\* Properties of the two totals
\* ------------------------------------------------------------------------
RECURSIVE SumTotalSales(_)
SumTotalSales(stats) ==
    IF stats = <<>> THEN 0
    ELSE stats[1].total_sales.v + SumTotalSales(Tail(stats))

MaxProducts == 6

ProductSale(tid, name, qty, price) ==
    Txn(tid, <<"0", "1">>, <<"P", "1">>, name, qty, price, <<"C", "1">>,
        <<"N">>)

A10 == ProductSale(<<"T", "1">>, <<"A">>, 10, Num(1000))

B10 == ProductSale(<<"T", "2">>, <<"B">>, 10, Num(1004))

C12 == ProductSale(<<"T", "3">>, <<"C">>, 12, Num(1000))

D11 == ProductSale(<<"T", "4">>, <<"D">>, 11, Num(1000))

E10 == ProductSale(<<"T", "5">>, <<"E">>, 10, Num(1000))

F1 == ProductSale(<<"T", "6">>, <<"F">>, 1, Num(1000))

A1 == ProductSale(<<"T", "7">>, <<"A">>, 1, Num(6))

ProductPool == {A10, B10, C12, D11, E10, F1, A1}

\* the lists of at most k different elements of S
RECURSIVE DistinctListsUpTo(_, _)
DistinctListsUpTo(S, k) ==
    IF k = 0 THEN {<<>>}
    ELSE LET shorter == DistinctListsUpTo(S, k - 1)
             longer == {q \in shorter \X S :
                           Len(q[1]) = k - 1 /\ q[2] \notin Range(q[1])}
         IN shorter \cup {Append(q[1], q[2]) : q \in longer}

\* the default of n and a value that cuts between products of equal quantity
TopChoices == {2, 5}

\* the default of threshold and the next value
ThresholdChoices == {10, 11}

\* ------------------------------------------------------------------------
\* Specification of the product rankings: top_selling_products, then
\* low_performing_products over the same list
\* ------------------------------------------------------------------------
InitProducts ==
    /\ pc = "analyse"
    /\ ParseIdle
    /\ transactions \in DistinctListsUpTo(ProductPool, MaxProducts)
    /\ region = NoneText
    /\ min_amount = None
    /\ max_amount = None
    /\ filtered_transactions = <<>>
    /\ invalid_count = 0
    /\ summary = NoSummary
    /\ printed = <<>>
    /\ region_stats = <<>>
    /\ file = NoFile
    /\ discarded_read = 0
    /\ total_revenue = Num(0)
    /\ top_products = <<>>
    /\ peak_day = <<>>
    /\ output_file = <<>>
    /\ top_n \in TopChoices
    /\ threshold \in ThresholdChoices
    /\ low_products = <<>>
    /\ customer_stats = <<>>
    /\ daily_stats = <<>>
    /\ product_mapping = <<>>
    /\ enriched_transactions = <<>>
    /\ PipelineIdle
    /\ raised = FALSE

CallTopSelling ==
    /\ pc = "analyse"
    /\ top_products' = top_selling_products(transactions, top_n)
    /\ pc' = "top"
    /\ UNCHANGED <<parseVars, validateVars, region_stats, file,
                   discarded_read, total_revenue, peak_day, output_file,
                   analysisVars, raised>>

CallLowPerforming ==
    /\ pc = "top"
    /\ low_products' = low_performing_products(transactions, threshold)
    /\ pc' = "low"
    /\ UNCHANGED <<parseVars, validateVars, region_stats, file,
                   discarded_read, total_revenue, top_products, peak_day,
                   output_file, top_n, threshold, customer_stats,
                   daily_stats, product_mapping, enriched_transactions,
                   pipelineVars, raised>>

NextProducts ==
    \/ CallTopSelling
    \/ CallLowPerforming

SpecProducts == InitProducts /\ [][NextProducts]_vars

\* ------------------------------------------------------------------------
\* Properties of the product rankings
\* ------------------------------------------------------------------------
ProductNames == {transactions[i].ProductName : i \in DOMAIN transactions}

SalesOf(name) ==
    {i \in DOMAIN transactions : transactions[i].ProductName = name}

RECURSIVE SumQuantityAt(_)
SumQuantityAt(positions) ==
    IF positions = {} THEN 0
    ELSE LET i == CHOOSE j \in positions : TRUE
         IN transactions[i].Quantity + SumQuantityAt(positions \ {i})

TotalQuantity(name) == SumQuantityAt(SalesOf(name))

FirstSale(name) == CHOOSE i \in SalesOf(name) : \A j \in SalesOf(name) : i <= j

\* a comes before b in descending order of total quantity, first seen first
\* among equals
RanksAbove(a, b) ==
    \/ TotalQuantity(a) > TotalQuantity(b)
    \/ TotalQuantity(a) = TotalQuantity(b) /\ FirstSale(a) < FirstSale(b)

\* a comes before b in ascending order of total quantity, first seen first
\* among equals
RanksBelow(a, b) ==
    \/ TotalQuantity(a) < TotalQuantity(b)
    \/ TotalQuantity(a) = TotalQuantity(b) /\ FirstSale(a) < FirstSale(b)

\* a triple (product_name, total_quantity, total_revenue) of a product of
\* the input, the revenue rounded to 2 decimals
IsProductTriple(t) ==
    /\ t[1] \in ProductNames
    /\ t[2] = TotalQuantity(t[1])
    /\ t[3].k = "num"
    /\ NearestCent(t[3].v, SumAmountsAt(SalesOf(t[1])))

NamesIn(triples) == {triples[i][1] : i \in DOMAIN triples}

Smaller(a, b) == IF a <= b THEN a ELSE b

\* C13: top_selling_products(transactions, n) returns min(n, number of
\* products) triples (product_name, total_quantity, total_revenue), in
\* descending order of total quantity with equal quantities in first-seen
\* order, and every product left out ranks behind every product returned.
C13_TopSelling ==
    pc = "top" =>
        /\ Len(top_products) = Smaller(top_n, Cardinality(ProductNames))
        /\ \A i \in DOMAIN top_products : IsProductTriple(top_products[i])
        /\ \A i, j \in DOMAIN top_products :
               i < j => RanksAbove(top_products[i][1], top_products[j][1])
        /\ \A i \in DOMAIN top_products :
               \A p \in ProductNames \ NamesIn(top_products) :
                   RanksAbove(top_products[i][1], p)

C13_Witness ==
    /\ pc = "top"
    /\ top_n = 2
    /\ transactions = <<F1, E10, A1, C12, B10, A10>>
    /\ top_products = <<<<<<"C">>, 12, Num(12000)>>,
                        <<<<"A">>, 11, Num(10010)>>>>

\* C14: low_performing_products(transactions, threshold) returns exactly
\* the products of total quantity strictly below threshold, all of them, in
\* ascending order of total quantity with equal quantities in first-seen
\* order.
C14_LowPerforming ==
    pc = "low" =>
        /\ NamesIn(low_products)
               = {p \in ProductNames : TotalQuantity(p) < threshold}
        /\ \A i \in DOMAIN low_products : IsProductTriple(low_products[i])
        /\ \A i, j \in DOMAIN low_products :
               i < j => RanksBelow(low_products[i][1], low_products[j][1])

C14_Witness ==
    /\ pc = "low"
    /\ threshold = 11
    /\ transactions = <<D11, E10, B10, F1>>
    /\ low_products = <<<<<<"F">>, 1, Num(1000)>>,
                        <<<<"E">>, 10, Num(10000)>>,
                        <<<<"B">>, 10, Num(10040)>>>>

\* the products in both results
Overlap == NamesIn(top_products) \cap NamesIn(low_products)

\* some product has exactly the threshold as its total quantity, or two
\* products of equal total quantity are on either side of the cut at n
BoundaryCoincidence ==
    \/ \E p \in ProductNames : TotalQuantity(p) = threshold
    \/ \E p \in NamesIn(top_products) :
           \E q \in ProductNames \ NamesIn(top_products) :
               TotalQuantity(p) = TotalQuantity(q)

\* C15 as stated: with n = 5 and threshold = 10 no product is in both
\* results unless quantities coincide at the boundary
C15_Disjoint ==
    (pc = "low" /\ top_n = 5 /\ threshold = 10 /\ ~BoundaryCoincidence)
        => Overlap = {}

\* C15: the products in both results are the returned top-n products whose
\* total quantity is below threshold; with at most n products in the input
\* every low-performing product is also a top-selling product, and the two
\* results are disjoint exactly when every top-n product has a total
\* quantity of at least threshold.
C15_OverlapBelowThreshold ==
    pc = "low" =>
        /\ Overlap = {p \in NamesIn(top_products) :
                         TotalQuantity(p) < threshold}
        /\ Cardinality(ProductNames) <= top_n
               => Overlap = NamesIn(low_products)

C15_Witness ==
    /\ pc = "low"
    /\ top_n = 5
    /\ threshold = 10
    /\ transactions = <<A1, B10, C12, D11, E10, F1>>
    /\ Overlap = {<<"A">>}
    /\ NamesIn(low_products) = {<<"A">>, <<"F">>}

\* ------------------------------------------------------------------------
\* Inputs of customer_analysis and daily_sales_trend: three customers, four
\* product names, four dates, amounts 1.004, 2.0 and 3.004
\* ------------------------------------------------------------------------
MaxPurchases == 4

K1 == Txn(<<"T", "1">>, <<"0", "2">>, <<"P", "1">>, <<"B">>,
          1, Num(1004), <<"C", "1">>, <<"N">>)

K2 == Txn(<<"T", "2">>, <<"0", "1">>, <<"P", "2">>, <<"A">>,
          1, Num(1004), <<"C", "2">>, <<"N">>)

K3 == Txn(<<"T", "3">>, <<"0", "1">>, <<"P", "3">>, <<"A", "B">>,
          2, Num(1000), <<"C", "1">>, <<"N">>)

K4 == Txn(<<"T", "4">>, <<"1", "0">>, <<"P", "4">>, <<"a">>,
          1, Num(3004), <<"C", "3">>, <<"N">>)

K5 == Txn(<<"T", "5">>, <<"1">>, <<"P", "1">>, <<"B">>,
          1, Num(1004), <<"C", "1">>, <<"N">>)

K6 == Txn(<<"T", "6">>, <<"0", "2">>, <<"P", "4">>, <<"a">>,
          1, Num(1004), <<"C", "2">>, <<"N">>)

PurchasePool == {K1, K2, K3, K4, K5, K6}

\* ------------------------------------------------------------------------
\* Specification of the groupings by customer and by date:
\* customer_analysis, then daily_sales_trend over the same list
\* ------------------------------------------------------------------------
InitCustomers ==
    /\ pc = "analyse"
    /\ ParseIdle
    /\ transactions \in ListsUpTo(PurchasePool, MaxPurchases)
    /\ region = NoneText
    /\ min_amount = None
    /\ max_amount = None
    /\ filtered_transactions = <<>>
    /\ invalid_count = 0
    /\ summary = NoSummary
    /\ printed = <<>>
    /\ region_stats = <<>>
    /\ MainIdle
    /\ raised = FALSE

CallCustomerAnalysis ==
    /\ pc = "analyse"
    /\ customer_stats' = customer_analysis(transactions)
    /\ pc' = "customers"
    /\ UNCHANGED <<parseVars, validateVars, region_stats, file,
                   discarded_read, total_revenue, top_products, peak_day,
                   output_file, top_n, threshold, low_products, daily_stats,
                   product_mapping, enriched_transactions, pipelineVars, raised>>

CallDailyTrend ==
    /\ pc = "customers"
    /\ daily_stats' = daily_sales_trend(transactions)
    /\ pc' = "daily"
    /\ UNCHANGED <<parseVars, validateVars, region_stats, file,
                   discarded_read, total_revenue, top_products, peak_day,
                   output_file, top_n, threshold, low_products,
                   customer_stats, product_mapping, enriched_transactions,
                   pipelineVars, raised>>

NextCustomers ==
    \/ CallCustomerAnalysis
    \/ CallDailyTrend

SpecCustomers == InitCustomers /\ [][NextCustomers]_vars

\* ------------------------------------------------------------------------
\* Properties of customer_analysis
\* ------------------------------------------------------------------------
PurchasesOf(cid) ==
    {i \in DOMAIN transactions : transactions[i].CustomerID = cid}

FirstPurchase(cid) ==
    CHOOSE i \in PurchasesOf(cid) : \A j \in PurchasesOf(cid) : i <= j

\* one entry per distinct customer_id, with the count of its transactions
CustomerEntries ==
    /\ \A i, j \in DOMAIN customer_stats :
           customer_stats[i].name = customer_stats[j].name => i = j
    /\ {customer_stats[i].name : i \in DOMAIN customer_stats}
           = {transactions[i].CustomerID : i \in DOMAIN transactions}
    /\ \A i \in DOMAIN customer_stats :
           /\ customer_stats[i].purchase_count
                  = Cardinality(PurchasesOf(customer_stats[i].name))
           /\ customer_stats[i].purchase_count >= 1

\* descending total_spent, equal totals in first-seen order
CustomerOrder ==
    \A i, j \in DOMAIN customer_stats :
        i < j =>
            \/ customer_stats[i].total_spent.v
                   > customer_stats[j].total_spent.v
            \/ /\ customer_stats[i].total_spent.v
                      = customer_stats[j].total_spent.v
               /\ FirstPurchase(customer_stats[i].name)
                      < FirstPurchase(customer_stats[j].name)

\* a multiple of 0.01 nearest to x / count (x in thousandths)
NearestCentOfRatio(rounded, x, count) ==
    /\ rounded % 10 = 0
    /\ Distance(rounded * count, x) <= 5 * count

\* avg_order_value is the sum of the amounts over the count, rounded
AverageOfSum ==
    \A i \in DOMAIN customer_stats :
        /\ customer_stats[i].avg_order_value.k = "num"
        /\ NearestCentOfRatio(customer_stats[i].avg_order_value.v,
                              SumAmountsAt(PurchasesOf(customer_stats[i].name)),
                              customer_stats[i].purchase_count)

\* C16 as stated: total_spent is the sum of the amounts of the customer
C16_TotalSpentExact ==
    pc = "customers" =>
        /\ CustomerEntries
        /\ CustomerOrder
        /\ AverageOfSum
        /\ \A i \in DOMAIN customer_stats :
               customer_stats[i].total_spent.v
                   = SumAmountsAt(PurchasesOf(customer_stats[i].name))

\* C16: customer_analysis returns one entry per distinct customer_id, with
\* purchase_count the number of its transactions (at least 1), total_spent
\* the sum of its amounts rounded to 2 decimals and avg_order_value the
\* unrounded sum divided by purchase_count, rounded to 2 decimals; entries
\* are in descending order of the returned total_spent, equal values in
\* first-seen order.
C16_TotalSpentRounded ==
    pc = "customers" =>
        /\ CustomerEntries
        /\ CustomerOrder
        /\ AverageOfSum
        /\ \A i \in DOMAIN customer_stats :
               /\ customer_stats[i].total_spent.k = "num"
               /\ NearestCent(customer_stats[i].total_spent.v,
                      SumAmountsAt(PurchasesOf(customer_stats[i].name)))

C16_Witness ==
    /\ pc = "customers"
    /\ transactions = <<K2, K1, K4, K3>>
    /\ [i \in DOMAIN customer_stats |-> customer_stats[i].name]
           = <<<<"C", "1">>, <<"C", "3">>, <<"C", "2">>>>
    /\ customer_stats[1].total_spent = Num(3000)
    /\ customer_stats[1].avg_order_value = Num(1500)
    /\ customer_stats[1].purchase_count = 2

\* C17: for every customer of the result, products_bought is in strictly
\* ascending lexicographic order (so without duplicates) and holds exactly
\* the product names of that customer's transactions.
C17_ProductsBought ==
    pc = "customers" =>
        \A i \in DOMAIN customer_stats :
            LET bought == customer_stats[i].products_bought
            IN /\ \A a, b \in DOMAIN bought :
                      a < b => StrLess(bought[a], bought[b])
               /\ Range(bought)
                      = {transactions[j].ProductName :
                            j \in PurchasesOf(customer_stats[i].name)}

C17_Witness ==
    /\ pc = "customers"
    /\ transactions = <<K1, K3, K5, K6>>
    /\ customer_stats[1].name = <<"C", "1">>
    /\ customer_stats[1].purchase_count = 3
    /\ customer_stats[1].products_bought = <<<<"A", "B">>, <<"B">>>>

\* ------------------------------------------------------------------------
\* Properties of daily_sales_trend
\* ------------------------------------------------------------------------
SalesOn(date) == {i \in DOMAIN transactions : transactions[i].Date = date}

CustomersOn(date) == {transactions[i].CustomerID : i \in SalesOn(date)}

RECURSIVE SumCounts(_)
SumCounts(stats) ==
    IF stats = <<>> THEN 0
    ELSE stats[1].transaction_count + SumCounts(Tail(stats))

\* one entry per distinct date in ascending order of the date as text, with
\* the count of its transactions and of its distinct customers
DailyEntries ==
    /\ {daily_stats[i].name : i \in DOMAIN daily_stats}
           = {transactions[i].Date : i \in DOMAIN transactions}
    /\ \A i, j \in DOMAIN daily_stats :
           i < j => StrLess(daily_stats[i].name, daily_stats[j].name)
    /\ \A i \in DOMAIN daily_stats :
           /\ daily_stats[i].transaction_count
                  = Cardinality(SalesOn(daily_stats[i].name))
           /\ daily_stats[i].unique_customers
                  = Cardinality(CustomersOn(daily_stats[i].name))
           /\ 1 <= daily_stats[i].unique_customers
           /\ daily_stats[i].unique_customers
                  <= daily_stats[i].transaction_count
    /\ SumCounts(daily_stats) = Len(transactions)

\* C18 as stated: revenue is the sum of the amounts of the date
C18_DailyRevenueExact ==
    pc = "daily" =>
        /\ DailyEntries
        /\ \A i \in DOMAIN daily_stats :
               daily_stats[i].revenue.v
                   = SumAmountsAt(SalesOn(daily_stats[i].name))

\* C18: daily_sales_trend returns one entry per distinct date, in ascending
\* order of the date as text, where transaction_count is the number of
\* transactions of the date, revenue the sum of their amounts rounded to 2
\* decimals and unique_customers the number of distinct customer_id values
\* (between 1 and transaction_count); the counts add up to the number of
\* input transactions.
C18_DailyRevenueRounded ==
    pc = "daily" =>
        /\ DailyEntries
        /\ \A i \in DOMAIN daily_stats :
               /\ daily_stats[i].revenue.k = "num"
               /\ NearestCent(daily_stats[i].revenue.v,
                              SumAmountsAt(SalesOn(daily_stats[i].name)))

C18_Witness ==
    /\ pc = "daily"
    /\ transactions = <<K4, K5, K1, K6>>
    /\ [i \in DOMAIN daily_stats |-> daily_stats[i].name]
           = <<<<"0", "2">>, <<"1">>, <<"1", "0">>>>
    /\ daily_stats[1].revenue = Num(2010)
    /\ daily_stats[1].transaction_count = 2
    /\ daily_stats[1].unique_customers = 2

\* ------------------------------------------------------------------------
\* Inputs of find_peak_sales_day: transactions that validate_and_filter
\* accepts, on three dates, two of them able to reach the same revenue, and
\* one with the unit price NaN that the parser emits for the text "nan"
\* ------------------------------------------------------------------------
MaxDaySales == 4

DaySale(tid, date, qty, price) ==
    Txn(tid, date, <<"P", "1">>, <<"A">>, qty, price, <<"C", "1">>, <<"N">>)

\* 2.0 on date 02
Day2Two == DaySale(<<"T", "1">>, <<"0", "2">>, 1, Num(2000))

\* 2.0 on date 01
Day1Two == DaySale(<<"T", "2">>, <<"0", "1">>, 2, Num(1000))

\* 1.004 on date 02
Day2Cent == DaySale(<<"T", "3">>, <<"0", "2">>, 1, Num(1004))

\* 3.004 on date 03
Day3Three == DaySale(<<"T", "4">>, <<"0", "3">>, 1, Num(3004))

\* NaN on date 01
Day1NaN == DaySale(<<"T", "5">>, <<"0", "1">>, 1, NaN)

DaySalePool == {Day2Two, Day1Two, Day2Cent, Day3Three, Day1NaN}

\* ------------------------------------------------------------------------
\* Specification of find_peak_sales_day: one call
\* ------------------------------------------------------------------------
InitPeak ==
    /\ pc = "analyse"
    /\ ParseIdle
    /\ transactions \in ListsUpTo(DaySalePool, MaxDaySales)
    /\ region = NoneText
    /\ min_amount = None
    /\ max_amount = None
    /\ filtered_transactions = <<>>
    /\ invalid_count = 0
    /\ summary = NoSummary
    /\ printed = <<>>
    /\ region_stats = <<>>
    /\ MainIdle
    /\ raised = FALSE

CallFindPeak ==
    /\ pc = "analyse"
    /\ peak_day' = find_peak_sales_day(transactions)
    /\ pc' = "peak"
    /\ UNCHANGED <<parseVars, validateVars, region_stats, file,
                   discarded_read, total_revenue, top_products, output_file,
                   analysisVars, raised>>

NextPeak == CallFindPeak

SpecPeak == InitPeak /\ [][NextPeak]_vars

\* ------------------------------------------------------------------------
\* Properties of find_peak_sales_day
\* ------------------------------------------------------------------------
SaleDates == {transactions[i].Date : i \in DOMAIN transactions}

FirstSaleOn(date) ==
    CHOOSE i \in SalesOn(date) : \A j \in SalesOn(date) : i <= j

\* the summed revenue of a date
RECURSIVE SumFloatsAt(_)
SumFloatsAt(positions) ==
    IF positions = {} THEN Num(0)
    ELSE LET i == CHOOSE j \in positions : TRUE
         IN FAdd(Amount(transactions[i]), SumFloatsAt(positions \ {i}))

RevenueOn(date) == SumFloatsAt(SalesOn(date))

\* the revenue of the date is strictly greater than that of every other
\* date, or equal with the date encountered first
PeakOf(date) ==
    \A other \in SaleDates \ {date} :
        \/ FGt(RevenueOn(date), RevenueOn(other))
        \/ /\ RevenueOn(date) = RevenueOn(other)
           /\ FirstSaleOn(date) < FirstSaleOn(other)

\* every transaction of the input passes the gate of validate_and_filter
AllValid == \A i \in DOMAIN transactions : PassesGate(transactions[i])

Sentinel == <<NoneText, Num(0), 0>>

\* C19: find_peak_sales_day returns (date, revenue, transaction_count) of
\* the date of greatest summed revenue, the first encountered among equals;
\* on the empty list it returns the sentinel (no date, 0.0, 0); on a
\* non-empty list of valid transactions the date is not the sentinel.
C19_PeakDay ==
    pc = "peak" =>
        /\ transactions = <<>> => peak_day = Sentinel
        /\ (transactions # <<>> /\ AllValid) =>
               /\ peak_day[1] # NoneText
               /\ peak_day[1] \in SaleDates
               /\ PeakOf(peak_day[1])
               /\ peak_day[2] = round2(RevenueOn(peak_day[1]))
               /\ peak_day[3] = Cardinality(SalesOn(peak_day[1]))

\* ------------------------------------------------------------------------
\* utils/api_handler.py: enrich_sales_data
\* ------------------------------------------------------------------------
\* str.isdigit on one character: true of the decimal digits and of other
\* digit characters such as the superscript two, which int() rejects
isdigit(c) == IsDigit(c) \/ c = "²"

\* the four fields every enriched transaction starts with
ApiDefaults ==
    [API_Category |-> NoneText, API_Brand |-> NoneText, API_Rating |-> None,
     API_Match |-> FALSE]

\* the four fields after a hit: api_info.get(...) of the catalog entry
ApiFields(api_info) ==
    [API_Category |-> api_info.category, API_Brand |-> api_info.brand,
     API_Rating |-> api_info.rating, API_Match |-> TRUE]

\* txn.get("ProductID")
ProductIdRaw(txn) ==
    IF "ProductID" \in DOMAIN txn THEN txn.ProductID ELSE NoneText

\* "".join(filter(str.isdigit, product_id_raw))
NumericIdStr(product_id_raw) == SelectSeq(product_id_raw, isdigit)

\* the input record after one iteration had the loop written to txn itself
\* instead of a copy: the enrichment fields land in the caller's record
SourceAfter_Aliased(txn, enriched_txn) == enriched_txn

\* the input record after one iteration: enriched_txn = txn.copy() is a new
\* dict and every assignment of the loop goes to it, txn is only read
SourceAfter(txn, enriched_txn) == txn

\* enriched_txn after the defaults and, on a hit, the four assignments
Enriched(txn, api_info) == ApiFields(api_info) @@ txn

\* one iteration of the loop with the ValueError of int() not caught:
\* ok = FALSE is the exception leaving the function
EnrichOne_Unguarded(txn, mapping) ==
    LET product_id_raw == ProductIdRaw(txn)
        numeric_id_str == NumericIdStr(product_id_raw)
        numeric_id == int(numeric_id_str)
        defaults == ApiDefaults @@ txn
    IN IF ~Truthy(product_id_raw) \/ numeric_id_str = <<>>
       THEN [ok |-> TRUE, txn |-> defaults,
             source |-> SourceAfter(txn, defaults)]
       ELSE IF ~numeric_id.ok
       THEN [ok |-> FALSE, txn |-> defaults,
             source |-> SourceAfter(txn, defaults)]
       ELSE IF IndexOf(mapping, numeric_id.v) = 0
       THEN [ok |-> TRUE, txn |-> defaults,
             source |-> SourceAfter(txn, defaults)]
       ELSE LET hit == Enriched(txn, mapping[IndexOf(mapping, numeric_id.v)])
            IN [ok |-> TRUE, txn |-> hit, source |-> SourceAfter(txn, hit)]

\* one iteration of the loop: the copy with the defaults, then the lookup
\* inside try / except Exception, which keeps the defaults; txn is the
\* record appended to the result, source the input record afterwards
EnrichOne(txn, mapping) ==
    LET product_id_raw == ProductIdRaw(txn)
        numeric_id_str == NumericIdStr(product_id_raw)
        numeric_id == int(numeric_id_str)
        defaults == ApiDefaults @@ txn
    IN IF ~Truthy(product_id_raw) \/ numeric_id_str = <<>>
       THEN [ok |-> TRUE, txn |-> defaults,
             source |-> SourceAfter(txn, defaults)]
       ELSE IF ~numeric_id.ok
       THEN [ok |-> TRUE, txn |-> defaults,
             source |-> SourceAfter(txn, defaults)]
       ELSE IF IndexOf(mapping, numeric_id.v) = 0
       THEN [ok |-> TRUE, txn |-> defaults,
             source |-> SourceAfter(txn, defaults)]
       ELSE LET hit == Enriched(txn, mapping[IndexOf(mapping, numeric_id.v)])
            IN [ok |-> TRUE, txn |-> hit, source |-> SourceAfter(txn, hit)]

\* the loop leaving out the records that already carry API_Match
enrich_sales_data_SkipEnriched(txns, mapping) ==
    LET fresh == SelectSeq(txns, LAMBDA t : "API_Match" \notin DOMAIN t)
        each == [i \in DOMAIN fresh |-> EnrichOne(fresh[i], mapping)]
    IN [raised |-> \E i \in DOMAIN each : ~each[i].ok,
        enriched_transactions |-> [i \in DOMAIN each |-> each[i].txn],
        transactions |-> txns]

\* raised = TRUE is an exception leaving the function; transactions is the
\* argument list as the caller sees it after the call
enrich_sales_data(txns, mapping) ==
    LET each == [i \in DOMAIN txns |-> EnrichOne(txns[i], mapping)]
    IN IF \E i \in DOMAIN each : ~each[i].ok
       THEN [raised |-> TRUE, enriched_transactions |-> <<>>,
             transactions |-> [i \in DOMAIN each |-> each[i].source]]
       ELSE [raised |-> FALSE,
             enriched_transactions |-> [i \in DOMAIN each |-> each[i].txn],
             transactions |-> [i \in DOMAIN each |-> each[i].source]]

\* ------------------------------------------------------------------------
\* Inputs of enrich_sales_data: product identifiers with and without
\* digits, empty, None and absent, and catalogs with the ids 7, 1 and 79
\* ------------------------------------------------------------------------
MaxEnrich == 2

WithProductId(pid) ==
    Txn(<<"T", "1">>, <<"0", "1">>, pid, <<"A">>, 1, Num(1000),
        <<"C", "1">>, <<"N">>)

\* a transaction without the key ProductID
NoProductId ==
    [TransactionID |-> <<"T", "1">>, Date |-> <<"0", "1">>,
     ProductName |-> <<"A">>, Quantity |-> 1, UnitPrice |-> Num(1000),
     CustomerID |-> <<"C", "1">>, Region |-> <<"N">>]

ProductIds == {<<"P", "7">>, <<"P", "0", "7">>, <<"7", "P", "9">>,
               <<"P", "8">>, <<"P">>, <<>>, NoneText,
               <<"P", "²">>, <<"P", "1", "²">>}

EnrichPool == {WithProductId(pid) : pid \in ProductIds} \cup {NoProductId}

Entry7 == [name |-> 7, title |-> <<"t">>, category |-> <<"c">>,
           brand |-> <<"b">>, rating |-> Num(4500)]

\* a catalog product without brand and rating
Entry1 == [name |-> 1, title |-> <<"u">>, category |-> <<"d">>,
           brand |-> NoneText, rating |-> None]

Entry79 == [name |-> 79, title |-> <<"v">>, category |-> <<"e">>,
            brand |-> <<"f">>, rating |-> Num(3000)]

Mappings == {<<>>, <<Entry7>>, <<Entry1, Entry79, Entry7>>}

\* ------------------------------------------------------------------------
\* Specification of enrich_sales_data: one call
\* ------------------------------------------------------------------------
InitEnrich ==
    /\ pc = "enrich"
    /\ ParseIdle
    /\ transactions \in ListsUpTo(EnrichPool, MaxEnrich)
    /\ region = NoneText
    /\ min_amount = None
    /\ max_amount = None
    /\ filtered_transactions = <<>>
    /\ invalid_count = 0
    /\ summary = NoSummary
    /\ printed = <<>>
    /\ region_stats = <<>>
    /\ file = NoFile
    /\ discarded_read = 0
    /\ total_revenue = Num(0)
    /\ top_products = <<>>
    /\ peak_day = <<>>
    /\ output_file = <<>>
    /\ top_n = 5
    /\ threshold = 10
    /\ low_products = <<>>
    /\ customer_stats = <<>>
    /\ daily_stats = <<>>
    /\ product_mapping \in Mappings
    /\ enriched_transactions = <<>>
    /\ PipelineIdle
    /\ raised = FALSE

CallEnrich ==
    /\ pc = "enrich"
    /\ LET r == enrich_sales_data(transactions, product_mapping)
       IN /\ enriched_transactions' = r.enriched_transactions
          /\ transactions' = r.transactions
          /\ raised' = r.raised
    /\ pc' = "enriched"
    /\ UNCHANGED <<parseVars, region, min_amount, max_amount,
                   filtered_transactions, invalid_count, summary, printed,
                   region_stats, file, discarded_read, total_revenue,
                   top_products, peak_day, output_file, top_n, threshold,
                   low_products, customer_stats, daily_stats,
                   product_mapping, pipelineVars>>

\* a second call, on the list the first call returned, with the same mapping
CallEnrichAgain ==
    /\ pc = "enriched"
    /\ ~raised
    /\ LET r == enrich_sales_data(enriched_transactions, product_mapping)
       IN /\ reenriched_transactions' = r.enriched_transactions
          /\ enriched_transactions' = r.transactions
          /\ raised' = r.raised
    /\ pc' = "reenriched"
    /\ UNCHANGED <<parseVars, validateVars, region_stats, file,
                   discarded_read, total_revenue, top_products, peak_day,
                   output_file, top_n, threshold, low_products,
                   customer_stats, daily_stats, product_mapping,
                   api_products, enriched_file, report_file, stdout, calls>>

NextEnrich ==
    \/ CallEnrich
    \/ CallEnrichAgain

SpecEnrich == InitEnrich /\ [][NextEnrich]_vars

\* ------------------------------------------------------------------------
\* Properties of enrich_sales_data
\* ------------------------------------------------------------------------
\* the digit characters of a product id, concatenated
DigitCharacters(pid) ==
    IF pid = NoneText THEN <<>> ELSE SelectSeq(pid, isdigit)

\* the digit characters form a non-empty string that has an integer value
HasIntegerValue(pid) ==
    /\ DigitCharacters(pid) # <<>>
    /\ \A i \in DOMAIN DigitCharacters(pid) :
           DigitCharacters(pid)[i] \in Range(Digits)

CatalogIds == {product_mapping[i].name : i \in DOMAIN product_mapping}

\* the transaction has a product id whose integer value is a catalog id
CatalogHit(txn) ==
    /\ "ProductID" \in DOMAIN txn
    /\ HasIntegerValue(txn.ProductID)
    /\ DigitsValue(DigitCharacters(txn.ProductID)) \in CatalogIds

CatalogEntry(txn) ==
    LET id == DigitsValue(DigitCharacters(txn.ProductID))
    IN product_mapping[CHOOSE i \in DOMAIN product_mapping :
                           product_mapping[i].name = id]

\* C20: enrich_sales_data never raises and returns one enriched copy per
\* transaction; it sets API_Match = true with the category, brand and rating
\* of the catalog entry exactly when the digit characters of ProductID form
\* a non-empty string whose integer value is a key of the mapping; in every
\* other case the three attributes are null and API_Match = false.
C20_Enrichment ==
    pc = "enriched" =>
        /\ raised = FALSE
        /\ Len(enriched_transactions) = Len(transactions)
        /\ \A i \in DOMAIN transactions :
               LET txn == transactions[i]
                   enriched == enriched_transactions[i]
               IN /\ \A key \in DOMAIN txn : enriched[key] = txn[key]
                  /\ enriched.API_Match = CatalogHit(txn)
                  /\ CatalogHit(txn) =>
                         /\ enriched.API_Category = CatalogEntry(txn).category
                         /\ enriched.API_Brand = CatalogEntry(txn).brand
                         /\ enriched.API_Rating = CatalogEntry(txn).rating
                  /\ ~CatalogHit(txn) =>
                         /\ enriched.API_Category = NoneText
                         /\ enriched.API_Brand = NoneText
                         /\ enriched.API_Rating = None

C20_Witness ==
    /\ pc = "enriched"
    /\ transactions = <<WithProductId(<<"P", "0", "7">>),
                        WithProductId(<<"P", "1", "²">>)>>
    /\ product_mapping = <<Entry1, Entry79, Entry7>>
    /\ enriched_transactions[1].API_Match = TRUE
    /\ enriched_transactions[1].API_Brand = <<"b">>
    /\ enriched_transactions[2].API_Match = FALSE

\* ------------------------------------------------------------------------
\* Properties of a repeated call of enrich_sales_data
\* ------------------------------------------------------------------------
EnrichmentFields == {"API_Category", "API_Brand", "API_Rating", "API_Match"}

BaseFields == {"TransactionID", "Date", "ProductID", "ProductName",
               "Quantity", "UnitPrice", "CustomerID", "Region"}

\* C21: enrichment is idempotent: enrich_sales_data applied to its own
\* output with the same mapping returns records with the same enrichment
\* fields and the same base fields, one per record and in the same order.
C21_Idempotent ==
    pc = "reenriched" =>
        /\ raised = FALSE
        /\ Len(reenriched_transactions) = Len(enriched_transactions)
        /\ \A i \in DOMAIN enriched_transactions :
               /\ DOMAIN reenriched_transactions[i]
                      = DOMAIN enriched_transactions[i]
               /\ \A key \in DOMAIN enriched_transactions[i] :
                      reenriched_transactions[i][key]
                          = enriched_transactions[i][key]

C21_Witness ==
    /\ pc = "reenriched"
    /\ product_mapping = <<Entry1, Entry79, Entry7>>
    /\ transactions = <<WithProductId(<<"7", "P", "9">>),
                        WithProductId(<<"P", "8">>)>>
    /\ Len(reenriched_transactions) = 2
    /\ reenriched_transactions[1].ProductID = <<"7", "P", "9">>
    /\ reenriched_transactions[1].API_Match = TRUE
    /\ reenriched_transactions[1].API_Category = <<"e">>
    /\ reenriched_transactions[2].ProductID = <<"P", "8">>
    /\ reenriched_transactions[2].API_Match = FALSE

\* C22: a call of enrich_sales_data leaves the transaction list, its records
\* and the catalog mapping as they were, and returns one record per input
\* transaction, in order, that carries the input's base fields unchanged.
C22_InputsUnchanged ==
    [][pc = "enrich" =>
           /\ transactions' = transactions
           /\ product_mapping' = product_mapping
           /\ \A i \in DOMAIN transactions' :
                  DOMAIN transactions'[i] \cap EnrichmentFields = {}
           /\ Len(enriched_transactions') = Len(transactions)
           /\ \A i \in DOMAIN transactions :
                  \A key \in DOMAIN transactions[i] \cap BaseFields :
                      enriched_transactions'[i][key] = transactions[i][key]]_vars

C22_Witness ==
    /\ pc = "enriched"
    /\ product_mapping = <<Entry7>>
    /\ transactions = <<WithProductId(<<"P", "7">>), NoProductId>>
    /\ enriched_transactions[1].API_Match = TRUE
    /\ DOMAIN transactions[1] = BaseFields
    /\ DOMAIN enriched_transactions[1] = BaseFields \cup EnrichmentFields

\* ------------------------------------------------------------------------
\* utils/api_handler.py: save_enriched_data
\* ------------------------------------------------------------------------
\* the decimal digits of a natural number
RECURSIVE NatText(_)
NatText(n) ==
    IF n < 10 THEN <<Digits[n + 1]>>
    ELSE NatText(n \div 10) \o <<Digits[(n % 10) + 1]>>

\* str(n) of an int
IntText(n) == IF n < 0 THEN <<"-">> \o NatText(0 - n) ELSE NatText(n)

\* str(x) of a float: the shortest decimal that reads back as x, which for
\* a number of thousandths is its decimals without trailing zeros, never
\* fewer than one
FloatText(x) ==
    LET a == IF x.v < 0 THEN 0 - x.v ELSE x.v
        m == a % 1000
        d1 == Digits[(m \div 100) + 1]
        d2 == Digits[((m \div 10) % 10) + 1]
        d3 == Digits[(m % 10) + 1]
        frac == IF m % 100 = 0 THEN <<d1>>
                ELSE IF m % 10 = 0 THEN <<d1, d2>>
                ELSE <<d1, d2, d3>>
    IN IF x.k = "nan" THEN <<"n", "a", "n">>
       ELSE IF x.k = "None" THEN <<"N", "o", "n", "e">>
       ELSE (IF x.v < 0 THEN <<"-">> ELSE <<>>)
                \o NatText(a \div 1000) \o <<".">> \o frac

\* the line written for one enriched transaction, without its newline
SavedLine(txn) ==
    LET \* f"{txn.get(key, '')}" for a text field; str(None) is "None"
        GetText(key) ==
            IF key \notin DOMAIN txn THEN <<>>
            ELSE IF txn[key] = NoneText THEN <<"N", "o", "n", "e">>
            ELSE txn[key]
        GetQuantity ==
            IF "Quantity" \in DOMAIN txn THEN IntText(txn.Quantity) ELSE <<>>
        GetUnitPrice ==
            IF "UnitPrice" \in DOMAIN txn THEN FloatText(txn.UnitPrice)
            ELSE <<>>
        \* f"{txn.get(key) or ''}" for API_Category and API_Brand
        TextOrEmpty(key) ==
            IF key \in DOMAIN txn /\ Truthy(txn[key]) THEN txn[key] ELSE <<>>
        \* f"{txn.get('API_Rating') or ''}": None and 0.0 write nothing
        RatingOrEmpty ==
            IF "API_Rating" \in DOMAIN txn /\ txn.API_Rating # None
                   /\ txn.API_Rating # Num(0)
            THEN FloatText(txn.API_Rating) ELSE <<>>
        \* f"{txn.get('API_Match')}"
        MatchText ==
            IF "API_Match" \notin DOMAIN txn THEN <<"N", "o", "n", "e">>
            ELSE IF txn.API_Match THEN <<"T", "r", "u", "e">>
            ELSE <<"F", "a", "l", "s", "e">>
    IN Join(<<GetText("TransactionID"), GetText("Date"),
              GetText("ProductID"), GetText("ProductName"), GetQuantity,
              GetUnitPrice, GetText("CustomerID"), GetText("Region"),
              TextOrEmpty("API_Category"), TextOrEmpty("API_Brand"),
              RatingOrEmpty, MatchText>>, "|")

\* the header line, by its twelve column names
SavedHeader ==
    Join(<<<<"TransactionID">>, <<"Date">>, <<"ProductID">>,
           <<"ProductName">>, <<"Quantity">>, <<"UnitPrice">>,
           <<"CustomerID">>, <<"Region">>, <<"API_Category">>,
           <<"API_Brand">>, <<"API_Rating">>, <<"API_Match">>>>, "|")

\* the lines of the file after the call: the header, then one line per
\* enriched transaction
save_enriched_data(enriched) ==
    <<SavedHeader>> \o [i \in DOMAIN enriched |-> SavedLine(enriched[i])]

\* ------------------------------------------------------------------------
\* Inputs of save_enriched_data: transactions as the parser returns them,
\* with a two-word product name, a price with thousandths, a two-digit
\* quantity and a product id the catalog does not have
\* ------------------------------------------------------------------------
MaxSaved == 2

SavedPlain == Txn(<<"T", "1">>, <<"0", "1">>, <<"P", "7">>, <<"A">>, 1,
                  Num(1000), <<"C", "1">>, <<"N">>)

SavedTwoWords == Txn(<<"T", "2">>, <<"0", "2">>, <<"P", "1">>,
                     <<"A", " ", "B">>, 12, Num(1004), <<"C", "2">>, <<"S">>)

SavedNoMatch == Txn(<<"T", "3">>, <<"0", "1">>, <<"P", "8">>, <<"B">>, 3,
                    Num(20500), <<"C", "1">>, <<"N">>)

SavedPool == {SavedPlain, SavedTwoWords, SavedNoMatch}

\* ------------------------------------------------------------------------
\* Specification of the round trip: enrich, save, read the saved file back
\* and parse its lines
\* ------------------------------------------------------------------------
InitSave ==
    /\ pc = "enrich"
    /\ ParseIdle
    /\ transactions \in ListsUpTo(SavedPool, MaxSaved)
    /\ region = NoneText
    /\ min_amount = None
    /\ max_amount = None
    /\ filtered_transactions = <<>>
    /\ invalid_count = 0
    /\ summary = NoSummary
    /\ printed = <<>>
    /\ region_stats = <<>>
    /\ file = NoFile
    /\ discarded_read = 0
    /\ total_revenue = Num(0)
    /\ top_products = <<>>
    /\ peak_day = <<>>
    /\ output_file = <<>>
    /\ top_n = 5
    /\ threshold = 10
    /\ low_products = <<>>
    /\ customer_stats = <<>>
    /\ daily_stats = <<>>
    /\ product_mapping \in Mappings
    /\ enriched_transactions = <<>>
    /\ PipelineIdle
    /\ raised = FALSE

CallSave ==
    /\ pc = "enriched"
    /\ enriched_file' = save_enriched_data(enriched_transactions)
    /\ pc' = "saved"
    /\ UNCHANGED <<parseVars, validateVars, region_stats, file,
                   discarded_read, total_revenue, top_products, peak_day,
                   output_file, top_n, threshold, low_products,
                   customer_stats, daily_stats, product_mapping,
                   enriched_transactions, reenriched_transactions,
                   api_products, report_file, stdout, calls, raised>>

\* read_sales_data on the saved file
CallReadSaved ==
    /\ pc = "saved"
    /\ file' = [exists |-> TRUE, lines |-> enriched_file]
    /\ raw_lines' = read_sales_data(file').lines
    /\ discarded_read' = read_sales_data(file').discarded
    /\ pc' = "read_back"
    /\ UNCHANGED <<parsed_transactions, discarded_count, discarded_records,
                   total_records, validateVars, region_stats, total_revenue,
                   top_products, peak_day, output_file, analysisVars, raised>>

\* parse_transactions on the lines read back
CallParseSaved ==
    /\ pc = "read_back"
    /\ LET r == parse_transactions(raw_lines)
       IN /\ parsed_transactions' = r.parsed_transactions
          /\ discarded_count' = r.discarded_count
          /\ discarded_records' = r.discarded_records
          /\ total_records' = r.total_records
    /\ pc' = "parsed_back"
    /\ UNCHANGED <<raw_lines, validateVars, region_stats, mainVars, raised>>

NextSave ==
    \/ CallEnrich
    \/ CallSave
    \/ CallReadSaved
    \/ CallParseSaved

SpecSave == InitSave /\ [][NextSave]_vars

\* C23: every enriched transaction, written by save_enriched_data and parsed
\* back by the parser, comes back with its eight base fields as they were.
C23_RoundTrip ==
    pc = "parsed_back" =>
        /\ Len(parsed_transactions) = Len(enriched_transactions)
        /\ \A i \in DOMAIN enriched_transactions :
               \A key \in BaseFields :
                   parsed_transactions[i][key] = enriched_transactions[i][key]

\* the saved line of every transaction has twelve fields and is discarded
C23_AllDiscarded ==
    pc = "parsed_back" =>
        /\ parsed_transactions = <<>>
        /\ discarded_count = Len(enriched_transactions)
        /\ \A i \in DOMAIN enriched_file :
               Len(split(enriched_file[i], "|")) = 12

\* ------------------------------------------------------------------------
\* utils/api_handler.py: fetch_all_products and create_product_mapping
\* ------------------------------------------------------------------------
\* what the provider answers: a JSON object with a product list, a request
\* that fails (connection error, timeout or a status raise_for_status
\* rejects, all RequestException), or a JSON body that is not an object
\* raised = TRUE is the AttributeError of data.get on such a body, which
\* the except clause (RequestException only) lets through
\* fetch_all_products answering a failed request with a built-in catalog
fetch_all_products_Fallback(response) ==
    IF response.kind = "RequestException"
    THEN [raised |-> FALSE, products |-> <<[id |-> 1]>>,
          printed |-> <<<<"Failed to fetch products from API">>>>]
    ELSE IF response.kind = "not_an_object"
    THEN [raised |-> TRUE, products |-> <<>>, printed |-> <<>>]
    ELSE [raised |-> FALSE, products |-> response.products,
          printed |-> <<<<"Successfully fetched products from API">>>>]

fetch_all_products(response) ==
    IF response.kind = "RequestException"
    THEN [raised |-> FALSE, products |-> <<>>,
          printed |-> <<<<"Failed to fetch products from API">>>>]
    ELSE IF response.kind = "not_an_object"
    THEN [raised |-> TRUE, products |-> <<>>, printed |-> <<>>]
    ELSE [raised |-> FALSE, products |-> response.products,
          printed |-> <<<<"Successfully fetched products from API">>>>]

\* one iteration of the loop: a product that is not a dict (AttributeError)
\* or has no id is skipped; product_map[product_id] = {...} replaces the
\* value of a key the dict has and appends a new key otherwise
MappingAdd(product_map, product) ==
    LET Field(key, default) ==
            IF key \in DOMAIN product THEN product[key] ELSE default
        value == [name |-> product.id,
                  title |-> Field("title", NoneText),
                  category |-> Field("category", NoneText),
                  brand |-> Field("brand", NoneText),
                  rating |-> Field("rating", None)]
    IN IF "not_a_dict" \in DOMAIN product \/ "id" \notin DOMAIN product
       THEN product_map
       ELSE IF IndexOf(product_map, product.id) = 0
       THEN Append(product_map, value)
       ELSE [product_map EXCEPT ![IndexOf(product_map, product.id)] = value]

RECURSIVE create_product_mapping(_)
create_product_mapping(products) ==
    IF products = <<>> THEN <<>>
    ELSE MappingAdd(create_product_mapping(SubSeq(products, 1,
                                                  Len(products) - 1)),
                    products[Len(products)])

\* ------------------------------------------------------------------------
\* The answers of the catalog provider
\* ------------------------------------------------------------------------
\* the catalog product with id 1, without brand and rating
Product1 == [id |-> 1, title |-> <<"u">>, category |-> <<"d">>]

\* the product with id 2
Product2 == [id |-> 2, title |-> <<"v">>, category |-> <<"e">>,
             brand |-> <<"f">>, rating |-> Num(3000)]

\* a second product with id 2, a product without id, an item that is no dict
Product2Again == [Product2 EXCEPT !.brand = <<"g">>]

ProductNoId == [title |-> <<"w">>]

ProductNotADict == [not_a_dict |-> TRUE]

Responses ==
    {[kind |-> "RequestException"],
     [kind |-> "not_an_object"],
     [kind |-> "ok", products |-> <<>>],
     [kind |-> "ok", products |-> <<Product2, ProductNoId, Product1,
                                    ProductNotADict, Product2Again>>]}

\* ------------------------------------------------------------------------
\* main.py: main, from the fetch stage to the report
\* ------------------------------------------------------------------------
\* "[6/10] Fetching product data from API"
MainFetch ==
    /\ pc = "main_analysed"
    /\ \E response \in Responses :
           /\ ~fetch_all_products(response).raised
           /\ api_products' = fetch_all_products(response).products
           /\ printed' = Append(printed \o fetch_all_products(response).printed,
                                <<"Fetched",
                                  Len(fetch_all_products(response).products)>>)
    /\ pc' = "main_enrich"
    /\ UNCHANGED <<parseVars, transactions, region, min_amount, max_amount,
                   filtered_transactions, invalid_count, summary,
                   region_stats, file, discarded_read, total_revenue,
                   top_products, peak_day, output_file, top_n, threshold,
                   low_products, customer_stats, daily_stats, product_mapping,
                   enriched_transactions, reenriched_transactions,
                   enriched_file, report_file, stdout, calls, raised>>

\* the failure of fetch_all_products caught at the stage, after which the
\* run goes on with an empty catalog
MainFetchFails_Continues ==
    /\ pc = "main_analysed"
    /\ \E response \in Responses : fetch_all_products(response).raised
    /\ printed' = Append(printed, <<"An error occurred during execution">>)
    /\ raised' = TRUE
    /\ pc' = "main_enrich"
    /\ UNCHANGED <<parseVars, transactions, region, min_amount, max_amount,
                   filtered_transactions, invalid_count, summary,
                   region_stats, mainVars>>

\* fetch_all_products raises
MainFetchFails ==
    /\ pc = "main_analysed"
    /\ \E response \in Responses : fetch_all_products(response).raised
    /\ Handler
    /\ UNCHANGED <<parseVars, transactions, region, min_amount, max_amount,
                   filtered_transactions, invalid_count, summary,
                   region_stats, mainVars>>

\* sum(1 for t in enriched_txns if t.get("API_Match"))
Matched(enriched) ==
    Len(SelectSeq(enriched,
                  LAMBDA t : "API_Match" \in DOMAIN t /\ t.API_Match))

\* "[7/10] Enriching sales data": valid_txns is filtered_transactions
MainEnrich ==
    /\ pc = "main_enrich"
    /\ product_mapping' = create_product_mapping(api_products)
    /\ LET r == enrich_sales_data(filtered_transactions,
                                  create_product_mapping(api_products))
       IN /\ enriched_transactions' = r.enriched_transactions
          /\ filtered_transactions' = r.transactions
          /\ printed' = Append(printed,
                               <<"Enriched", Matched(r.enriched_transactions),
                                 Len(filtered_transactions)>>)
    /\ pc' = "main_save"
    /\ UNCHANGED <<parseVars, transactions, region, min_amount, max_amount,
                   invalid_count, summary, region_stats, file,
                   discarded_read, total_revenue, top_products, peak_day,
                   output_file, top_n, threshold, low_products,
                   customer_stats, daily_stats, pipelineVars, raised>>

\* "[8/10] Saving enriched data"
MainSave ==
    /\ pc = "main_save"
    /\ enriched_file' = save_enriched_data(enriched_transactions)
    /\ printed' = Append(printed, <<"Saved">>)
    /\ pc' = "main_report"
    /\ UNCHANGED <<parseVars, transactions, region, min_amount, max_amount,
                   filtered_transactions, invalid_count, summary,
                   region_stats, file, discarded_read, total_revenue,
                   top_products, peak_day, output_file, top_n, threshold,
                   low_products, customer_stats, daily_stats, product_mapping,
                   enriched_transactions, reenriched_transactions,
                   api_products, report_file, stdout, calls, raised>>

\* "[9/10] Generating report": the sections of output/sales_report.txt
MainReport ==
    /\ pc = "main_report"
    /\ report_file' =
           <<<<"Valid Transactions", Len(filtered_transactions)>>,
             <<"Invalid Transactions", invalid_count>>,
             <<"Total Revenue", total_revenue>>,
             <<"REGION-WISE SALES", region_stats>>,
             <<"TOP SELLING PRODUCTS", top_products>>,
             <<"PEAK SALES DAY", peak_day>>,
             <<"Matched Transactions", Matched(enriched_transactions)>>,
             <<"Total Transactions", Len(filtered_transactions)>>>>
    /\ printed' = Append(printed, <<"Report saved">>)
    /\ pc' = "main_done"
    /\ UNCHANGED <<parseVars, transactions, region, min_amount, max_amount,
                   filtered_transactions, invalid_count, summary,
                   region_stats, file, discarded_read, total_revenue,
                   top_products, peak_day, output_file, top_n, threshold,
                   low_products, customer_stats, daily_stats, product_mapping,
                   enriched_transactions, reenriched_transactions,
                   api_products, enriched_file, stdout, calls, raised>>

NextMain ==
    \/ MainRead
    \/ MainReadFails
    \/ MainParse
    \/ MainShowOptions
    \/ MainShowOptionsFails
    \/ MainPromptNo
    \/ MainPromptYes
    \/ MainPromptFails
    \/ MainValidate
    \/ MainWriteDiscarded
    \/ MainRedirect
    \/ MainAnalyse
    \/ MainAnalyseFails
    \/ MainHandleAnalysisError
    \/ MainFetch
    \/ MainFetchFails
    \/ MainEnrich
    \/ MainSave
    \/ MainReport

SpecMain == InitMain /\ [][NextMain]_vars

\* ------------------------------------------------------------------------
\* Properties of main after the analysis stage
\* ------------------------------------------------------------------------
\* fetch_all_products reported a failed request
ProviderFailed ==
    \E i \in DOMAIN printed :
        printed[i] = <<"Failed to fetch products from API">>

AfterFetch == {"main_enrich", "main_save", "main_report", "main_done"}

\* C24: after a failed request to the catalog provider, fetch_all_products
\* has returned the empty list, the mapping built from it is empty, the
\* enrichment returns one record per valid transaction with API_Match false
\* and null attributes, and main goes on through the save and report
\* stages: it is never in its error state and each stage it waits at can run.
C24_ProviderFailure ==
    ProviderFailed =>
        /\ raised = FALSE
        /\ pc \in AfterFetch
        /\ api_products = <<>>
        /\ create_product_mapping(api_products) = <<>>
        /\ pc = "main_enrich" => ENABLED MainEnrich
        /\ pc = "main_save" => ENABLED MainSave
        /\ pc = "main_report" => ENABLED MainReport
        /\ pc # "main_enrich" =>
               /\ product_mapping = <<>>
               /\ Len(enriched_transactions) = Len(filtered_transactions)
               /\ \A i \in DOMAIN enriched_transactions :
                      /\ enriched_transactions[i].API_Match = FALSE
                      /\ enriched_transactions[i].API_Category = NoneText
                      /\ enriched_transactions[i].API_Brand = NoneText
                      /\ enriched_transactions[i].API_Rating = None
                      /\ enriched_transactions[i].TransactionID
                             = filtered_transactions[i].TransactionID
        /\ pc \in {"main_report", "main_done"} =>
               Len(enriched_file) = Len(filtered_transactions) + 1
        /\ pc = "main_done" => report_file # <<>>

C24_Witness ==
    /\ ProviderFailed
    /\ pc = "main_done"
    /\ Len(filtered_transactions) = 2
    /\ Len(enriched_transactions) = 2
    /\ report_file[7] = <<"Matched Transactions", 0>>
    /\ raised = FALSE

\* the stages of main in order, by the value of pc while the stage is due
StageOf(at) ==
    CASE at = "main" -> 1
      [] at = "main_parse" -> 2
      [] at \in {"main_options", "main_prompt", "main_validate",
                 "main_discarded"} -> 3
      [] at \in {"main_analyse", "main_redirected"} -> 4
      [] at = "main_analysed" -> 5
      [] at = "main_enrich" -> 6
      [] at = "main_save" -> 7
      [] at = "main_report" -> 8
      [] at = "main_done" -> 9
      [] OTHER -> 0

\* the run is in or past the exception handler
Stopped == pc \in {"main_except", "main_failed", "main_crashed"}

\* C25: the stages of main run in the order read, parse, validate/filter,
\* analyse, fetch, enrich, save, report, each entered from the one before
\* it only; once a stage has raised no stage runs and nothing is written
\* any more; the report exists only at the end of a run in which every
\* stage completed, and it is written from the results of those stages.
C25_StageOrder ==
    [][/\ ~Stopped /\ ~Stopped' =>
              /\ StageOf(pc') \in {StageOf(pc), StageOf(pc) + 1}
              /\ raised' = FALSE
       /\ Stopped =>
              /\ Stopped'
              /\ report_file' = report_file
              /\ enriched_file' = enriched_file
              /\ output_file' = output_file
              /\ enriched_transactions' = enriched_transactions
              /\ api_products' = api_products
       /\ Stopped' => report_file' = <<>>
       /\ report_file' # <<>> =>
              /\ pc' = "main_done"
              /\ raised' = FALSE
              /\ report_file'[1][2] = Len(filtered_transactions')
              /\ report_file'[3][2]
                     = calculate_total_revenue(filtered_transactions')
              /\ Len(enriched_transactions') = Len(filtered_transactions')
              /\ Len(enriched_file') = Len(enriched_transactions') + 1]_vars

\* a run whose fetch stage raised: the earlier stages are done, the later
\* ones have left no trace
C25_Witness ==
    /\ pc = "main_failed"
    /\ Len(filtered_transactions) = 1
    /\ Len(output_file) > 5
    /\ api_products = <<>>
    /\ enriched_transactions = <<>>
    /\ enriched_file = <<>>
    /\ report_file = <<>>

\* main is over: it returned or an exception left it
MainOver == pc \in {"main_done", "main_failed", "main_crashed"}

\* C29: whenever main is over, sys.stdout is the console stream again, and
\* after a failure the message of the exception handler is on the console.
C29_StdoutRestored ==
    MainOver =>
        /\ stdout = "console"
        /\ raised =>
               printed[Len(printed)] = <<"An error occurred during execution">>

\* what happens instead when the analysis stage raises
C29_HandlerWritesToClosedFile ==
    pc = "main_crashed" =>
        /\ stdout = "closed"
        /\ \A i \in DOMAIN printed :
               printed[i] # <<"An error occurred during execution">>

\* ------------------------------------------------------------------------
\* Properties of the summary of validate_and_filter
\* ------------------------------------------------------------------------
\* C28: the summary returned by validate_and_filter accounts for every
\* input record: total_input = invalid + filtered_by_region +
\* filtered_by_amount + final_count, no counter is negative, total_input is
\* the length of the input and final_count the length of the returned list.
C28_SummaryAccounts ==
    (Returned /\ ~raised) =>
        /\ summary.total_input
               = summary.invalid + summary.filtered_by_region
                     + summary.filtered_by_amount + summary.final_count
        /\ summary.total_input = Len(transactions)
        /\ summary.invalid >= 0
        /\ summary.filtered_by_region >= 0
        /\ summary.filtered_by_amount >= 0
        /\ summary.final_count >= 0
        /\ summary.final_count = Len(filtered_transactions)
        /\ summary.invalid = invalid_count

C28_Witness ==
    /\ pc = "validated"
    /\ raised = FALSE
    /\ region = NORTH
    /\ min_amount = Num(3000)
    /\ summary = [total_input |-> 3, invalid |-> 1, filtered_by_region |-> 1,
                  filtered_by_amount |-> 1, final_count |-> 0]

\* ------------------------------------------------------------------------
\* Properties of read_sales_data, as main calls it
\* ------------------------------------------------------------------------
\* C27: read_sales_data returns the non-blank lines after the header and a
\* discarded count that covers the header and the blank lines: returned
\* lines plus discarded count is the number of lines of the file, and the
\* discarded count is never negative, also for a file without lines.
C27_ReadAccounts ==
    pc = "main_parse" =>
        /\ raw_lines = NonBlankStripped(IF file.lines = <<>> THEN <<>>
                                        ELSE Tail(file.lines))
        /\ Len(raw_lines) + discarded_read = Len(file.lines)
        /\ discarded_read >= 0

\* what the count is instead: the lines of the file less one and less the
\* lines returned, which is -1 for a file without lines
C27_CountLeavesOutHeader ==
    pc = "main_parse" =>
        /\ Len(raw_lines) + discarded_read = Len(file.lines) - 1
        /\ file.lines = <<>> => discarded_read = 0 - 1

\* ------------------------------------------------------------------------
\* The functions of data_processor.py and validate_and_filter called on one
\* list, in any order and repeatedly
\* ------------------------------------------------------------------------
MaxPure == 2

MaxCalls == 3

PurePool == {TxnNorth, TxnLower, TxnSouth, TxnBadPid, TxnZeroQty}

\* the filters of the two calls main makes: none, and a region with a minimum
PureFilters == {<<NoneText, None, None>>, <<NORTH, Num(3000), None>>}

\* the list a function was given as its caller sees it after the call, had
\* the function removed from it the records that fail validation
ArgumentAfter_Pruned(txns) ==
    ValidateLoop([invalid_count |-> 0, valid_transactions |-> <<>>],
                 txns).valid_transactions

\* the list a function was given as its caller sees it after the call: the
\* eight functions iterate over the list and read the records by key; none
\* assigns to the list or to a record, and none keeps state between calls
ArgumentAfter(txns) == txns

\* parsed_transactions keeps the list as it was before the first call
InitPure ==
    /\ pc = "pure"
    /\ transactions \in ListsUpTo(PurePool, MaxPure)
    /\ raw_lines = <<>>
    /\ parsed_transactions = transactions
    /\ discarded_count = 0
    /\ discarded_records = <<>>
    /\ total_records = 0
    /\ region = NoneText
    /\ min_amount = None
    /\ max_amount = None
    /\ filtered_transactions = <<>>
    /\ invalid_count = 0
    /\ summary = NoSummary
    /\ printed = <<>>
    /\ region_stats = <<>>
    /\ MainIdle
    /\ raised = FALSE

\* calculate_total_revenue(transactions)
RunTotalRevenue ==
    /\ pc = "pure"
    /\ calls < MaxCalls
    /\ total_revenue' = calculate_total_revenue(transactions)
    /\ transactions' = ArgumentAfter(transactions)
    /\ calls' = calls + 1
    /\ pc' = "pure"
    /\ UNCHANGED <<parseVars, region, min_amount, max_amount,
                   filtered_transactions, invalid_count, summary, printed,
                   region_stats, file, discarded_read, top_products,
                   peak_day, output_file, top_n, threshold, low_products,
                   customer_stats, daily_stats, product_mapping,
                   enriched_transactions, reenriched_transactions,
                   api_products, enriched_file, report_file, stdout, raised>>

\* region_wise_sales(transactions)
RunRegionWiseSales ==
    /\ pc = "pure"
    /\ calls < MaxCalls
    /\ region_stats' = region_wise_sales(transactions).region_stats
    /\ transactions' = ArgumentAfter(transactions)
    /\ calls' = calls + 1
    /\ pc' = "pure"
    /\ UNCHANGED <<parseVars, region, min_amount, max_amount,
                   filtered_transactions, invalid_count, summary, printed,
                   file, discarded_read, total_revenue, top_products,
                   peak_day, output_file, top_n, threshold, low_products,
                   customer_stats, daily_stats, product_mapping,
                   enriched_transactions, reenriched_transactions,
                   api_products, enriched_file, report_file, stdout, raised>>

\* top_selling_products(transactions)
RunTopSelling ==
    /\ pc = "pure"
    /\ calls < MaxCalls
    /\ top_products' = top_selling_products(transactions, top_n)
    /\ transactions' = ArgumentAfter(transactions)
    /\ calls' = calls + 1
    /\ pc' = "pure"
    /\ UNCHANGED <<parseVars, region, min_amount, max_amount,
                   filtered_transactions, invalid_count, summary, printed,
                   region_stats, file, discarded_read, total_revenue,
                   peak_day, output_file, top_n, threshold, low_products,
                   customer_stats, daily_stats, product_mapping,
                   enriched_transactions, reenriched_transactions,
                   api_products, enriched_file, report_file, stdout, raised>>

\* low_performing_products(transactions)
RunLowPerforming ==
    /\ pc = "pure"
    /\ calls < MaxCalls
    /\ low_products' = low_performing_products(transactions, threshold)
    /\ transactions' = ArgumentAfter(transactions)
    /\ calls' = calls + 1
    /\ pc' = "pure"
    /\ UNCHANGED <<parseVars, region, min_amount, max_amount,
                   filtered_transactions, invalid_count, summary, printed,
                   region_stats, file, discarded_read, total_revenue,
                   top_products, peak_day, output_file, top_n, threshold,
                   customer_stats, daily_stats, product_mapping,
                   enriched_transactions, reenriched_transactions,
                   api_products, enriched_file, report_file, stdout, raised>>

\* customer_analysis(transactions)
RunCustomerAnalysis ==
    /\ pc = "pure"
    /\ calls < MaxCalls
    /\ customer_stats' = customer_analysis(transactions)
    /\ transactions' = ArgumentAfter(transactions)
    /\ calls' = calls + 1
    /\ pc' = "pure"
    /\ UNCHANGED <<parseVars, region, min_amount, max_amount,
                   filtered_transactions, invalid_count, summary, printed,
                   region_stats, file, discarded_read, total_revenue,
                   top_products, peak_day, output_file, top_n, threshold,
                   low_products, daily_stats, product_mapping,
                   enriched_transactions, reenriched_transactions,
                   api_products, enriched_file, report_file, stdout, raised>>

\* daily_sales_trend(transactions)
RunDailyTrend ==
    /\ pc = "pure"
    /\ calls < MaxCalls
    /\ daily_stats' = daily_sales_trend(transactions)
    /\ transactions' = ArgumentAfter(transactions)
    /\ calls' = calls + 1
    /\ pc' = "pure"
    /\ UNCHANGED <<parseVars, region, min_amount, max_amount,
                   filtered_transactions, invalid_count, summary, printed,
                   region_stats, file, discarded_read, total_revenue,
                   top_products, peak_day, output_file, top_n, threshold,
                   low_products, customer_stats, product_mapping,
                   enriched_transactions, reenriched_transactions,
                   api_products, enriched_file, report_file, stdout, raised>>

\* find_peak_sales_day(transactions)
RunFindPeak ==
    /\ pc = "pure"
    /\ calls < MaxCalls
    /\ peak_day' = find_peak_sales_day(transactions)
    /\ transactions' = ArgumentAfter(transactions)
    /\ calls' = calls + 1
    /\ pc' = "pure"
    /\ UNCHANGED <<parseVars, region, min_amount, max_amount,
                   filtered_transactions, invalid_count, summary, printed,
                   region_stats, file, discarded_read, total_revenue,
                   top_products, output_file, top_n, threshold, low_products,
                   customer_stats, daily_stats, product_mapping,
                   enriched_transactions, reenriched_transactions,
                   api_products, enriched_file, report_file, stdout, raised>>

\* validate_and_filter(transactions, region, min_amount, max_amount)
RunValidate ==
    /\ pc = "pure"
    /\ calls < MaxCalls
    /\ \E f \in PureFilters : Validate(f[1], f[2], f[3])
    /\ transactions' = ArgumentAfter(transactions)
    /\ calls' = calls + 1
    /\ pc' = "pure"
    /\ UNCHANGED <<parseVars, region_stats, file, discarded_read,
                   total_revenue, top_products, peak_day, output_file,
                   top_n, threshold, low_products, customer_stats,
                   daily_stats, product_mapping, enriched_transactions,
                   reenriched_transactions, api_products, enriched_file,
                   report_file, stdout>>

NextPure ==
    \/ RunTotalRevenue
    \/ RunRegionWiseSales
    \/ RunTopSelling
    \/ RunLowPerforming
    \/ RunCustomerAnalysis
    \/ RunDailyTrend
    \/ RunFindPeak
    \/ RunValidate

SpecPure == InitPure /\ [][NextPure]_vars

\* the result of validate_and_filter run alone on the list with the filters
\* of the last call
ValidateAlone ==
    validate_and_filter(parsed_transactions, region, min_amount, max_amount)

====
